---- MODULE Spec2Model ----
(***************************************************************************)
(* Model of the AgentOrchestrator (src/components/multiagent):             *)
(* a worker pool, a priority task queue, the scheduling tick, asynchronous  *)
(* task execution (completion or failure of the awaited strategy) and       *)
(* cancellation.  JavaScript runs every handler to completion, so each      *)
(* handler is one atomic action; the only suspension point is the `await`   *)
(* inside executeTask, modelled by the set `executing`.                     *)
(***************************************************************************)
EXTENDS Integers, Sequences, FiniteSets, TLC

(* ---------------------------- bounds ---------------------------------- *)
\* number of submitTask calls explored
MaxTasks == 3

\* calls made directly on one learning agent that leave a learning event
MaxAgentCalls == 2

\* Q-table updates in the single-state environment
MaxUpdates == 3

\* digits JSON.stringify prints after the decimal point, at most
MaxFracDigits == 17

\* calls made on an environment
MaxEnvCalls == 4

(* ------------------------ static configuration ------------------------ *)
NoAgent == "none"
NoTask == 0

\* Map insertion order of this.agents
AgentOrder ==
  <<"analyzer-001", "generator-001", "tester-001", "debugger-001", "trainer-001">>

AgentIds == {AgentOrder[i] : i \in DOMAIN AgentOrder}

AgentCapabilities ==
  [a \in AgentIds |->
     CASE a = "analyzer-001"  -> {"architecture_analysis", "component_detection", "relationship_mapping"}
       [] a = "generator-001" -> {"code_generation", "component_creation", "refactoring"}
       [] a = "tester-001"    -> {"unit_testing", "integration_testing", "performance_testing"}
       [] a = "debugger-001"  -> {"error_detection", "performance_analysis", "fix_suggestions"}
       [] a = "trainer-001"   -> {"model_training", "hyperparameter_optimization", "model_evaluation"}]

TaskType ==
  {"analyze_architecture", "generate_code", "run_tests", "debug_issues",
   "train_model", "monitor_performance", "optimize_parameters"}

Priority == {"low", "medium", "high", "critical"}

TerminalStatus == {"completed", "failed", "cancelled"}
InFlightStatus == {"assigned", "running"}

taskCapabilityMap ==
  [tt \in TaskType |->
     CASE tt = "analyze_architecture" -> {"architecture_analysis", "component_detection"}
       [] tt = "generate_code"        -> {"code_generation", "component_creation"}
       [] tt = "run_tests"            -> {"unit_testing", "integration_testing", "performance_testing"}
       [] tt = "debug_issues"         -> {"error_detection", "performance_analysis"}
       [] tt = "train_model"          -> {"model_training", "hyperparameter_optimization"}
       [] tt = "monitor_performance"  -> {"performance_monitoring", "metrics_collection"}
       [] tt = "optimize_parameters"  -> {"hyperparameter_optimization", "model_evaluation"}]

priorityWeight ==
  [p \in Priority |->
     CASE p = "critical" -> 4 [] p = "high" -> 3 [] p = "medium" -> 2 [] p = "low" -> 1]

\* the (type, priority) pairs offered to submitTask
SubmitInputs ==
  ({"train_model"} \X Priority)
    \cup ({"run_tests"} \X {"critical", "low"})
    \cup {<<"monitor_performance", "high">>}

(* ------------------------------ state --------------------------------- *)
VARIABLES
  tasks,          \* every Task object created so far, indexed by id 1..Len(tasks)
  agents,         \* this.agents: id -> [status, currentTask, currentLoad]
  taskQueue,      \* this.taskQueue: sequence of task ids
  activeTasks,    \* this.activeTasks: set of task ids
  completedTasks, \* this.completedTasks: sequence of task ids
  executing,      \* executeTask invocations suspended at their await
  env,            \* the RLEnvironment object and its RewardCalculator
  rl,             \* the RLAgentBase objects: id -> fields
  heap,           \* the previousActions arrays, shared by reference
  held,           \* the AgentState objects the caller of step() holds
  call,           \* arguments and result of the latest call on a pure function
  calls           \* how many calls the caller has made on the environment

orchVars == <<tasks, agents, taskQueue, activeTasks, completedTasks, executing>>

rlVars == <<env, rl, heap, held, call, calls>>

vars == <<tasks, agents, taskQueue, activeTasks, completedTasks, executing,
          env, rl, heap, held, call, calls>>

TaskIds == 1..Len(tasks)

Max(a, b) == IF a >= b THEN a ELSE b

(* ---------------------------- helpers --------------------------------- *)
\* requiredCapabilities.some(cap => agent.capabilities.includes(cap))
canAgentHandleTaskAnyType(caps, tt) ==
  \E ty \in TaskType : \E cap \in taskCapabilityMap[ty] : cap \in caps

canAgentHandleTask(caps, tt) ==
  \E cap \in taskCapabilityMap[tt] : cap \in caps

\* Array.prototype.sort((a, b) => key[a] - key[b]); the sort is stable, so x
\* goes before the first element whose key is strictly greater.
RECURSIVE InsertStable(_, _, _)
InsertStable(s, x, key) ==
  IF s = <<>> THEN <<x>>
  ELSE IF key[Head(s)] > key[x] THEN <<x>> \o s
       ELSE <<Head(s)>> \o InsertStable(Tail(s), x, key)

RECURSIVE StableSort(_, _)
StableSort(s, key) ==
  IF s = <<>> THEN <<>>
  ELSE InsertStable(StableSort(SubSeq(s, 1, Len(s) - 1), key), s[Len(s)], key)

\* Array.prototype.find: index of the first element satisfying the predicate
\* (given as a set of ids), 0 when there is none
RECURSIVE FindFrom(_, _, _)
FindFrom(s, i, ok) ==
  IF i > Len(s) THEN 0
  ELSE IF s[i] \in ok THEN i ELSE FindFrom(s, i + 1, ok)

\* Array.prototype.splice(index, 1)
RemoveAt(s, i) == SubSeq(s, 1, i - 1) \o SubSeq(s, i + 1, Len(s))

(* --------------------------- operations ------------------------------- *)
\* The orchestrator's mutable state as one record, threaded through the
\* synchronous code of a handler.
State ==
  [tasks |-> tasks, agents |-> agents, taskQueue |-> taskQueue,
   activeTasks |-> activeTasks, completedTasks |-> completedTasks,
   executing |-> executing]

prioritizeTaskQueueAscending(q, ts) ==
  StableSort(q, [id \in DOMAIN ts |-> priorityWeight[ts[id].priority]])

prioritizeTaskQueue(q, ts) ==
  StableSort(q, [id \in DOMAIN ts |-> 0 - priorityWeight[ts[id].priority]])

findSuitableTaskLast(st, a) ==
  LET ok == {id \in DOMAIN st.tasks :
               /\ st.tasks[id].status = "pending"
               /\ canAgentHandleTask(AgentCapabilities[a], st.tasks[id].type)}
      idx == {i \in DOMAIN st.taskQueue : st.taskQueue[i] \in ok}
  IN IF idx = {} THEN NoTask
     ELSE st.taskQueue[CHOOSE i \in idx : \A j \in idx : j <= i]

findSuitableTaskAnyStatus(st, a) ==
  LET ok == {id \in DOMAIN st.tasks :
               canAgentHandleTask(AgentCapabilities[a], st.tasks[id].type)}
      i == FindFrom(st.taskQueue, 1, ok)
  IN IF i = 0 THEN NoTask ELSE st.taskQueue[i]

findSuitableTask(st, a) ==
  LET ok == {id \in DOMAIN st.tasks :
               /\ st.tasks[id].status = "pending"
               /\ canAgentHandleTask(AgentCapabilities[a], st.tasks[id].type)}
      i == FindFrom(st.taskQueue, 1, ok)
  IN IF i = 0 THEN NoTask ELSE st.taskQueue[i]

executeTaskStartKeepsStatus(st, t, a) ==
  [st EXCEPT !.executing = @ \cup {t}]

\* the synchronous prefix of executeTask, up to the await
executeTaskStart(st, t, a) ==
  [st EXCEPT !.tasks[t].status = "running",
             !.executing = @ \cup {t}]

assignTaskToAgent(st, t, a) ==
  LET s1 == [st EXCEPT !.tasks[t].status = "assigned",
                       !.tasks[t].assignedAgent = a,
                       !.agents[a].status = "busy",
                       !.agents[a].currentTask = t,
                       !.agents[a].currentLoad = @ + 1,
                       !.activeTasks = @ \cup {t}]
      index == FindFrom(s1.taskQueue, 1, {t})
      s2 == IF index > 0
              THEN [s1 EXCEPT !.taskQueue = RemoveAt(@, index)]
              ELSE s1
  IN executeTaskStart(s2, t, a)

\* the for-loop of processTaskQueue over availableAgents[i..]
RECURSIVE processAgents(_, _, _)
processAgents(st, avail, i) ==
  IF i > Len(avail) THEN st
  ELSE LET suitableTask == findSuitableTask(st, avail[i])
       IN IF suitableTask # NoTask
            THEN processAgents(assignTaskToAgent(st, suitableTask, avail[i]), avail, i + 1)
            ELSE processAgents(st, avail, i + 1)

availableAgents(st) ==
  StableSort(SelectSeq(AgentOrder, LAMBDA a : st.agents[a].status = "idle"),
             [a \in AgentIds |-> st.agents[a].currentLoad])

processTaskQueue(st) == processAgents(st, availableAgents(st), 1)

releaseAgentKeepTask(ags, a) ==
  [ags EXCEPT ![a].status = "idle",
              ![a].currentLoad = Max(0, @ - 1)]

\* the three lines without agent.status = 'idle'
releaseAgentStaysBusy(ags, a) ==
  [ags EXCEPT ![a].currentTask = NoTask,
              ![a].currentLoad = Max(0, @ - 1)]

\* the finally block of executeTask (cancelTask repeats the same three lines)
releaseAgent(ags, a) ==
  [ags EXCEPT ![a].status = "idle",
              ![a].currentTask = NoTask,
              ![a].currentLoad = Max(0, @ - 1)]

\* this.activeTasks.get(id) || this.taskQueue.find(task => task.id === id)
getTaskById(st, id) ==
  IF id \in st.activeTasks THEN id
  ELSE IF \E i \in DOMAIN st.taskQueue : st.taskQueue[i] = id THEN id
  ELSE NoTask

\* cancelTask: the state it leaves and the boolean it returns
cancelTask(st, id) ==
  LET task == getTaskById(st, id)
  IN IF task # NoTask /\ st.tasks[task].status # "completed"
       THEN LET a == st.tasks[task].assignedAgent
                s1 == [st EXCEPT !.tasks[task].status = "cancelled"]
                s2 == IF a # NoAgent
                        THEN [s1 EXCEPT !.agents = releaseAgent(@, a)]
                        ELSE s1
            IN [st |-> [s2 EXCEPT !.activeTasks = @ \ {id}], ret |-> TRUE]
       ELSE [st |-> st, ret |-> FALSE]

\* executeTask after the awaited strategy resolved: rest of the try block,
\* then the finally block
executeTaskResolve(st, t) ==
  LET a == st.tasks[t].assignedAgent
      s1 == [st EXCEPT !.tasks[t].output = "result",
                       !.tasks[t].status = "completed"]
  IN [s1 EXCEPT !.agents = releaseAgent(@, a),
                !.activeTasks = @ \ {t},
                !.completedTasks = IF s1.tasks[t].status = "completed"
                                     THEN Append(@, t) ELSE @,
                !.executing = @ \ {t}]

\* executeTask after the awaited strategy rejected: catch block, then finally
executeTaskReject(st, t) ==
  LET a == st.tasks[t].assignedAgent
      s1 == [st EXCEPT !.tasks[t].status = "failed",
                       !.tasks[t].output = "error"]
  IN [s1 EXCEPT !.agents = releaseAgent(@, a),
                !.activeTasks = @ \ {t},
                !.completedTasks = IF s1.tasks[t].status = "completed"
                                     THEN Append(@, t) ELSE @,
                !.executing = @ \ {t}]

submitTask(st, tt, p) ==
  LET fullTask == [type |-> tt, priority |-> p, status |-> "pending",
                   assignedAgent |-> NoAgent, output |-> "none"]
      ts == Append(st.tasks, fullTask)
  IN [st EXCEPT !.tasks = ts,
                !.taskQueue = prioritizeTaskQueue(Append(@, Len(ts)), ts)]

(* ---------------- static configuration of the learners ---------------- *)
\* the feature names the environment reads and writes, in the order
\* Array.prototype.sort gives them
FeatureKeysSorted ==
  <<"accuracy", "analysisQuality", "complexity", "efficiency", "hasError",
    "lastActionTime", "overallPerformance", "processingTime", "resourceUsage">>

FeatureKeys == {FeatureKeysSorted[i] : i \in DOMAIN FeatureKeysSorted}

\* the UTF-16 code units of each feature name
FeatureKeyText ==
  [accuracy |-> <<97, 99, 99, 117, 114, 97, 99, 121>>,
   analysisQuality |-> <<97, 110, 97, 108, 121, 115, 105, 115, 81, 117, 97, 108, 105, 116, 121>>,
   complexity |-> <<99, 111, 109, 112, 108, 101, 120, 105, 116, 121>>,
   efficiency |-> <<101, 102, 102, 105, 99, 105, 101, 110, 99, 121>>,
   hasError |-> <<104, 97, 115, 69, 114, 114, 111, 114>>,
   lastActionTime |-> <<108, 97, 115, 116, 65, 99, 116, 105, 111, 110, 84, 105, 109, 101>>,
   overallPerformance |-> <<111, 118, 101, 114, 97, 108, 108, 80, 101, 114, 102, 111, 114, 109, 97, 110, 99, 101>>,
   processingTime |-> <<112, 114, 111, 99, 101, 115, 115, 105, 110, 103, 84, 105, 109, 101>>,
   resourceUsage |-> <<114, 101, 115, 111, 117, 114, 99, 101, 85, 115, 97, 103, 101>>]

\* this.learningEvents.length > 1000
MaxLearningEvents == 1000

\* this.learningConfig.memorySize || 10000
DefaultMemorySize == 10000

\* this.performance.learningProgress.length > 100
MaxLearningProgress == 100

\* ids of the learning agents; the last one is never constructed
RLAgentIds == {"agent-1", "agent-2"}

\* values of the learners' variables while no such object exists
NoEnvironment == "none"

NoCall == "none"

UnknownAgentId == "agent-9"

\* LearningConfig objects a caller constructs agents with: the usual one, a
\* greedy one with a small memory, one of another algorithm whose
\* exploration grows, and one whose initial exploration is below its floor
LearningConfigs ==
  {[algorithm |-> "q-learning", learningRate |-> <<1, 2>>,
    discountFactor |-> <<9, 10>>, explorationRate |-> <<1, 1>>,
    explorationDecay |-> <<1, 2>>, minExploration |-> <<1, 10>>,
    memorySize |-> 0],
   [algorithm |-> "q-learning", learningRate |-> <<1, 1>>,
    discountFactor |-> <<1, 2>>, explorationRate |-> <<0, 1>>,
    explorationDecay |-> <<9, 10>>, minExploration |-> <<0, 1>>,
    memorySize |-> 2],
   [algorithm |-> "dqn", learningRate |-> <<1, 2>>,
    discountFactor |-> <<1, 2>>, explorationRate |-> <<1, 10>>,
    explorationDecay |-> <<2, 1>>, minExploration |-> <<1, 2>>,
    memorySize |-> 0],
   [algorithm |-> "q-learning", learningRate |-> <<1, 10>>,
    discountFactor |-> <<0, 1>>, explorationRate |-> <<1, 20>>,
    explorationDecay |-> <<9, 10>>, minExploration |-> <<1, 10>>,
    memorySize |-> 0]}

\* the AgentAction objects of the action space, in its order; a cost of 0
\* stands for no cost as well (action.cost || 0)
ActionSpace ==
  <<[id |-> "a1", name |-> "enhance_accuracy", cost |-> <<1, 2>>],
    [id |-> "a2", name |-> "reduce_complexity", cost |-> <<0, 1>>],
    [id |-> "a3", name |-> "wait", cost |-> <<1, 1>>]>>

\* values Math.random() returns
RandomDraws == {<<0, 1>>, <<1, 2>>, <<99, 100>>}

\* the values two successive Math.random() calls return in selectAction; the
\* second one is only drawn, by exploreAction, after a small first one
SelectDraws == ({<<0, 1>>} \X RandomDraws) \cup {<<<<99, 100>>, <<0, 1>>>>}

\* AgentState objects a caller constructs: no hash, a second one with other
\* features, and one that carries a hash of its own ("s1"); previousActions
\* is a reference into heap, 0 for none; systemLoad 0 stands for none too
StateA ==
  [hash |-> <<>>, features |-> [accuracy |-> <<7, 10>>],
   context |-> [systemLoad |-> <<0, 1>>, previousActions |-> 0], timestamp |-> 0]

StateB ==
  [hash |-> <<>>, features |-> [accuracy |-> <<17, 20>>, complexity |-> <<1, 2>>],
   context |-> [systemLoad |-> <<1, 2>>, previousActions |-> 0], timestamp |-> 0]

StateC ==
  [hash |-> <<115, 49>>, features |-> [accuracy |-> <<7, 10>>],
   context |-> [systemLoad |-> <<0, 1>>, previousActions |-> 0], timestamp |-> 0]

CallerStates == {StateA, StateB, StateC}

\* Experience objects handed to learn directly
Experience(s, a, r, s2, d) ==
  [state |-> s, action |-> ActionSpace[a], reward |-> [value |-> r],
   nextState |-> s2, done |-> d]

DirectExperiences ==
  {Experience(StateA, 1, <<1, 1>>, StateA, FALSE),
   Experience(StateA, 2, <<-1, 2>>, StateB, FALSE),
   Experience(StateB, 1, <<-1, 2>>, StateB, TRUE),
   Experience(StateB, 2, <<0, 1>>, StateA, FALSE),
   Experience(StateC, 3, <<1, 1>>, StateB, TRUE)}

\* reward values handed to receiveReward and endEpisode directly
DirectRewards == {<<1, 1>>, <<-1, 2>>}

\* The value e. TLC evaluates the argument of an operator where the operator
\* uses it, inside whatever it is evaluating then; building the tuple makes
\* it evaluate v here, before e, which keeps nested evaluations shallow.
After(v, e) == IF Len(<<v>>) = 1 THEN e ELSE e

\* F(v), v being evaluated first: a value that is used more than once is
\* given a name this way
With(v, F(_)) == After(v, F(v))

(* ------------------ numbers of the learning components ---------------- *)
\* A JavaScript number is held exactly, as a fraction <<n, d>> in lowest
\* terms with d > 0; rounding of the binary floating-point format is left
\* out.
Abs(n) == IF n < 0 THEN 0 - n ELSE n

RECURSIVE GCD(_, _)
GCD(a, b) == IF b = 0 THEN a ELSE GCD(b, a % b)

Frac(n, d) ==
  LET g == GCD(Abs(n), Abs(d))
  IN IF d < 0 THEN <<(0 - n) \div g, (0 - d) \div g>>
     ELSE <<n \div g, d \div g>>

Zero == <<0, 1>>

One == <<1, 1>>

Lcm(a, b) == (a \div GCD(a, b)) * b

\* x + y
Plus(x, y) ==
  LET l == Lcm(x[2], y[2])
  IN Frac(x[1] * (l \div x[2]) + y[1] * (l \div y[2]), l)

\* x - y
Minus(x, y) ==
  LET l == Lcm(x[2], y[2])
  IN Frac(x[1] * (l \div x[2]) - y[1] * (l \div y[2]), l)

\* x * y, reduced crosswise before multiplying
Times(x, y) ==
  LET g1 == GCD(Abs(x[1]), y[2])
      g2 == GCD(Abs(y[1]), x[2])
  IN Frac((x[1] \div g1) * (y[1] \div g2), (x[2] \div g2) * (y[2] \div g1))

\* x / y for y # 0
Over(x, y) == Times(x, IF y[1] < 0 THEN <<0 - y[2], 0 - y[1]>> ELSE <<y[2], y[1]>>)

\* x < y
Less(x, y) ==
  LET l == Lcm(x[2], y[2])
  IN x[1] * (l \div x[2]) < y[1] * (l \div y[2])

\* Math.max(x, y)
MaxOf(x, y) == IF Less(x, y) THEN y ELSE x

\* Math.min(x, y)
MinOf(x, y) == IF Less(y, x) THEN y ELSE x

\* Math.abs(x)
AbsOf(x) == <<Abs(x[1]), x[2]>>

\* Math.max(...values) over a non-empty set of numbers
MaxOfSet(S) == CHOOSE x \in S : \A y \in S : ~Less(x, y)

\* sum of a sequence of numbers, added up half by half
RECURSIVE SumOf(_)
SumOf(s) ==
  IF s = <<>> THEN Zero
  ELSE IF Len(s) = 1 THEN Plus(Zero, s[1])
  ELSE With(SumOf(SubSeq(s, 1, Len(s) \div 2)), LAMBDA front :
         Plus(front, SumOf(SubSeq(s, Len(s) \div 2 + 1, Len(s)))))

\* x to the power n, n a natural number
RECURSIVE Power(_, _)
Power(x, n) == IF n = 0 THEN One ELSE Times(x, Power(x, n - 1))

(* ------------------------- text and hashing --------------------------- *)
\* Strings that get hashed are held as sequences of UTF-16 code units.
RECURSIVE NatText(_)
NatText(n) ==
  IF n < 10 THEN <<48 + n>> ELSE NatText(n \div 10) \o <<48 + (n % 10)>>

\* Number.prototype.toString of a 32-bit integer
IntText(n) ==
  IF n >= 0 THEN NatText(n)
  ELSE LET d == (10 - (n % 10)) % 10
           q == 0 - ((n + d) \div 10)
       IN <<45>> \o (IF q = 0 THEN <<>> ELSE NatText(q)) \o <<48 + d>>

\* the digits after the decimal point of r/d, at most k of them
RECURSIVE FracText(_, _, _)
FracText(r, d, k) ==
  IF r = 0 \/ k = 0 THEN <<>>
  ELSE <<48 + ((r * 10) \div d)>> \o FracText((r * 10) % d, d, k - 1)

\* the text JSON.stringify gives a number
NumText(x) ==
  LET a == Abs(x[1])
      sign == IF x[1] < 0 THEN <<45>> ELSE <<>>
      frac == FracText(a % x[2], x[2], MaxFracDigits)
  IN sign \o NatText(a \div x[2]) \o (IF frac = <<>> THEN <<>> ELSE <<46>> \o frac)

\* the "key":value members of the features object for the keys ks, in that
\* order, separated by commas
RECURSIVE MembersText(_, _)
MembersText(features, ks) ==
  IF ks = <<>> THEN <<>>
  ELSE LET k == Head(ks)
           rest == MembersText(features, Tail(ks))
       IN IF k \in DOMAIN features
            THEN <<34>> \o FeatureKeyText[k] \o <<34, 58>> \o NumText(features[k])
                   \o (IF rest = <<>> THEN <<>> ELSE <<44>> \o rest)
            ELSE rest

\* JSON.stringify(state.features, Object.keys(state.features).sort())
Stringify(features) == <<123>> \o MembersText(features, FeatureKeysSorted) \o <<125>>

\* A 32-bit word is held as <<hi, lo>>, its two 16-bit halves.
\* (a * b) mod 2^16 for 16-bit a and b, on 8-bit limbs of b
MulLow16(a, b) == (a * (b % 256) + ((a * (b \div 256)) % 256) * 256) % 65536

\* a * b for 16-bit a and b, as a 32-bit word
Mul16(a, b) ==
  LET mid == ((a \div 256) * (b % 256) + (a % 256) * (b \div 256)) * 256
               + (a % 256) * (b % 256)
  IN <<((a \div 256) * (b \div 256) + (mid \div 65536)) % 65536, mid % 65536>>

\* x * y mod 2^32
Mul32(x, y) ==
  LET low == Mul16(x[2], y[2])
  IN <<(low[1] + MulLow16(x[1], y[2]) + MulLow16(x[2], y[1])) % 65536, low[2]>>

\* x + y mod 2^32
Add32(x, y) ==
  <<(x[1] + y[1] + ((x[2] + y[2]) \div 65536)) % 65536, (x[2] + y[2]) % 65536>>

\* simpleHash's loop over str[i..j]: hash = ((hash << 5) - hash) + char and
\* hash = hash & hash make the hash 31 * hash + char mod 2^32. The result
\* is <<h, p>> with h the hash of the code units i..j started from 0 and
\* p = 31^(j - i + 1); the hash of a concatenation is h1 * p2 + h2, so
\* the loop is evaluated by halves.
RECURSIVE HashRange(_, _, _)
HashRange(str, i, j) ==
  IF i = j THEN <<<<0, str[i]>>, <<0, 31>>>>
  ELSE LET m == (i + j) \div 2
           halves == <<HashRange(str, i, m), HashRange(str, m + 1, j)>>
           l == halves[1]
           r == halves[2]
       IN After(halves, <<Add32(Mul32(l[1], r[2]), r[1]), Mul32(l[2], r[2])>>)

\* the signed 32-bit integer a word stands for
Signed32(x) ==
  IF x[1] >= 32768 THEN (x[1] - 65536) * 65536 + x[2] ELSE x[1] * 65536 + x[2]

simpleHash(str) ==
  IF str = <<>> THEN <<48>>
  ELSE IntText(Signed32(HashRange(str, 1, Len(str))[1]))

hashState(state) ==
  IF state.hash # <<>> THEN state.hash ELSE simpleHash(Stringify(state.features))

(* ------------------------ RLAgentBase ---------------------------------- *)
\* new Map()
EmptyMap == [x \in {} |-> Zero]

\* Map.prototype.set(k, v)
MapSet(m, k, v) ==
  LET set == [x \in (DOMAIN m) \cup {k} |-> IF x = k THEN v ELSE m[x]]
  IN After(set, set)

\* the value JavaScript gives 0/0
NaN == <<0, 0>>

\* Math.floor of a number that is not negative
Floor(x) == x[1] \div x[2]

\* the fields a freshly constructed RLAgentBase has
NewAgent(config, actions) ==
  [config |-> config,
   actions |-> actions,
   status |-> "idle",
   episodeCount |-> 0,
   totalReward |-> Zero,
   averageReward |-> Zero,
   performance |->
     [episodesCompleted |-> 0, averageReward |-> Zero, rewardVariance |-> Zero,
      explorationRate |-> config.explorationRate, convergenceScore |-> Zero,
      learningProgress |-> <<>>, successRate |-> Zero, efficiencyScore |-> Zero],
   version |-> 1,
   experienceBuffer |-> <<>>,
   qTable |-> [states |-> EmptyMap, defaultValue |-> Zero],
   rewardHistory |-> <<>>,
   learningEvents |-> <<>>]

\* the table after the first three lines of getQValue and of setQValue
qTableWith(q, stateHash) ==
  IF stateHash \in DOMAIN q.states THEN q
  ELSE [q EXCEPT !.states = MapSet(@, stateHash, EmptyMap)]

\* the number getQValue returns: a stored value that is 0 is falsy and reads
\* as the default
getQValue(q, stateHash, actionId) ==
  LET stateActions == qTableWith(q, stateHash).states[stateHash]
  IN IF actionId \in DOMAIN stateActions /\ stateActions[actionId] # Zero
       THEN stateActions[actionId]
       ELSE q.defaultValue

setQValue(q, stateHash, actionId, value) ==
  [qTableWith(q, stateHash) EXCEPT !.states[stateHash] = MapSet(@, actionId, value)]

getMaxQValue(q, stateHash) ==
  IF stateHash \notin DOMAIN q.states THEN q.defaultValue
  ELSE LET stateActions == q.states[stateHash]
       IN IF DOMAIN stateActions = {} THEN q.defaultValue
          ELSE MaxOfSet({stateActions[a] : a \in DOMAIN stateActions})

logLearningEvent(g, type, n, v) ==
  LET evs == Append(g.learningEvents, [type |-> type, n |-> n, v |-> v])
  IN [g EXCEPT !.learningEvents =
        IF Len(evs) > MaxLearningEvents THEN Tail(evs) ELSE evs]

\* addExperience without the shift
addExperienceKeepsAll(g, experience) ==
  [g EXCEPT !.experienceBuffer = Append(@, experience)]

addExperience(g, experience) ==
  LET buf == Append(g.experienceBuffer, experience)
      maxBufferSize == IF g.config.memorySize # 0 THEN g.config.memorySize
                       ELSE DefaultMemorySize
  IN [g EXCEPT !.experienceBuffer =
        IF Len(buf) > maxBufferSize THEN Tail(buf) ELSE buf]

updateQTableIgnoresDone(g, experience) ==
  LET stateHash == hashState(experience.state)
      nextStateHash == hashState(experience.nextState)
      currentQ == getQValue(g.qTable, stateHash, experience.action.id)
      q1 == qTableWith(g.qTable, stateHash)
      targetQ == Plus(experience.reward.value,
                      Times(g.config.discountFactor, getMaxQValue(q1, nextStateHash)))
      newQ == Plus(currentQ, Times(g.config.learningRate, Minus(targetQ, currentQ)))
  IN [g EXCEPT !.qTable = setQValue(q1, stateHash, experience.action.id, newQ),
               !.version = @ + 1]

updateQTableAddsTarget(g, experience) ==
  LET stateHash == hashState(experience.state)
      nextStateHash == hashState(experience.nextState)
      currentQ == getQValue(g.qTable, stateHash, experience.action.id)
      q1 == qTableWith(g.qTable, stateHash)
      targetQ == IF experience.done THEN experience.reward.value
                 ELSE Plus(experience.reward.value,
                           Times(g.config.discountFactor,
                                 getMaxQValue(q1, nextStateHash)))
      newQ == Plus(currentQ, Times(g.config.learningRate, targetQ))
  IN [g EXCEPT !.qTable = setQValue(q1, stateHash, experience.action.id, newQ),
               !.version = @ + 1]

\* knowledge.lastUpdated is a wall-clock reading and is left out
updateQTable(g, experience) ==
  With(hashState(experience.state), LAMBDA stateHash :
  With(hashState(experience.nextState), LAMBDA nextStateHash :
  With(getQValue(g.qTable, stateHash, experience.action.id), LAMBDA currentQ :
  With(qTableWith(g.qTable, stateHash), LAMBDA q1 :
  With(IF experience.done THEN experience.reward.value
       ELSE Plus(experience.reward.value,
                 Times(g.config.discountFactor, getMaxQValue(q1, nextStateHash))),
       LAMBDA targetQ :
  With(Plus(currentQ, Times(g.config.learningRate, Minus(targetQ, currentQ))),
       LAMBDA newQ :
    [g EXCEPT !.qTable = setQValue(q1, stateHash, experience.action.id, newQ),
              !.version = @ + 1]))))))

\* the last k elements of s: Array.prototype.slice(-k)
LastK(s, k) == IF Len(s) <= k THEN s ELSE SubSeq(s, Len(s) - k + 1, Len(s))

\* variance / Math.abs(mean + 0.001) inside Math.max(0, 1 - ...): a zero
\* divisor gives Infinity (score 0) or, for variance 0, NaN
convergenceScore(variance, mean) ==
  LET divisor == AbsOf(Plus(mean, <<1, 1000>>))
  IN IF divisor = Zero
       THEN IF variance = Zero THEN NaN ELSE Zero
       ELSE MaxOf(Zero, Minus(One, Over(variance, divisor)))

updatePerformanceMetrics(g) ==
  IF g.rewardHistory = <<>> THEN g
  ELSE LET h == g.rewardHistory
           n == <<Len(h), 1>>
           mean == g.averageReward
           squares == [i \in DOMAIN h |->
                         With(Minus(h[i], mean), LAMBDA d : Times(d, d))]
           successfulEpisodes == Cardinality({i \in DOMAIN h : Less(Zero, h[i])})
           recentRewards == LastK(h, 10)
           recentAverage == Over(SumOf(recentRewards), <<Len(recentRewards), 1>>)
       IN With(Over(SumOf(squares), n), LAMBDA variance :
            [g EXCEPT !.performance.rewardVariance = variance,
                      !.performance.successRate = Over(<<successfulEpisodes, 1>>, n),
                      !.performance.convergenceScore = convergenceScore(variance, mean),
                      !.performance.efficiencyScore = MaxOf(Zero, recentAverage)])

learnWithoutUpdate(g, experience) ==
  logLearningEvent(updatePerformanceMetrics(addExperience(g, experience)),
                   "state_transition", 0, experience.reward.value)

learn(g, experience) ==
  With(addExperience(g, experience), LAMBDA g1 :
  With(IF g1.config.algorithm = "q-learning"
         THEN updateQTable(g1, experience) ELSE g1, LAMBDA g2 :
  With(updatePerformanceMetrics(g2), LAMBDA g3 :
    logLearningEvent(g3, "state_transition", 0, experience.reward.value))))

receiveRewardDecaying(g, value) ==
  LET total == Plus(g.totalReward, value)
      h == Append(g.rewardHistory, value)
      g1 == [g EXCEPT !.totalReward = total,
                      !.rewardHistory = h,
                      !.averageReward = Over(total, <<Max(1, Len(h)), 1>>),
                      !.performance.explorationRate =
                        Times(@, g.config.explorationDecay)]
  IN logLearningEvent(g1, "reward_received", 0, value)

receiveReward(g, value) ==
  LET total == Plus(g.totalReward, value)
      h == Append(g.rewardHistory, value)
      g1 == [g EXCEPT !.totalReward = total,
                      !.rewardHistory = h,
                      !.averageReward = Over(total, <<Max(1, Len(h)), 1>>)]
  IN logLearningEvent(g1, "reward_received", 0, value)

startEpisode(g) ==
  LET g1 == [g EXCEPT !.episodeCount = @ + 1,
                      !.status = "learning",
                      !.performance.episodesCompleted = g.episodeCount + 1]
  IN logLearningEvent(g1, "episode_start", g1.episodeCount,
                      g1.performance.explorationRate)

updateLearningProgress(g, episodeReward) ==
  LET lp == Append(g.performance.learningProgress,
                   [episode |-> g.episodeCount, reward |-> episodeReward])
  IN [g EXCEPT !.performance.learningProgress =
        IF Len(lp) > MaxLearningProgress THEN Tail(lp) ELSE lp]

endEpisodeNoFloor(g, episodeReward) ==
  LET g1 == [g EXCEPT !.status = "idle",
                      !.rewardHistory = Append(@, episodeReward),
                      !.performance.explorationRate =
                        Times(@, g.config.explorationDecay)]
  IN logLearningEvent(updateLearningProgress(g1, episodeReward),
                      "episode_complete", g1.episodeCount, episodeReward)

endEpisode(g, episodeReward) ==
  LET g1 == [g EXCEPT !.status = "idle",
                      !.rewardHistory = Append(@, episodeReward),
                      !.performance.explorationRate =
                        MaxOf(g.config.minExploration,
                              Times(@, g.config.explorationDecay))]
  IN logLearningEvent(updateLearningProgress(g1, episodeReward),
                      "episode_complete", g1.episodeCount, episodeReward)

\* the for-of loop of exploitAction from position i on, best being the best
\* action so far
RECURSIVE exploitLoopLatest(_, _, _, _, _)
exploitLoopLatest(q, stateHash, actions, i, best) ==
  IF i > Len(actions) THEN best
  ELSE IF ~Less(getQValue(q, stateHash, actions[i].id), getQValue(q, stateHash, best.id))
         THEN exploitLoopLatest(q, stateHash, actions, i + 1, actions[i])
         ELSE exploitLoopLatest(q, stateHash, actions, i + 1, best)

RECURSIVE exploitLoop(_, _, _, _, _)
exploitLoop(q, stateHash, actions, i, best) ==
  IF i > Len(actions) THEN best
  ELSE IF Less(getQValue(q, stateHash, best.id), getQValue(q, stateHash, actions[i].id))
         THEN exploitLoop(q, stateHash, actions, i + 1, actions[i])
         ELSE exploitLoop(q, stateHash, actions, i + 1, best)

exploitActionLatestTie(g, stateHash) ==
  exploitLoopLatest(g.qTable, stateHash, g.actions, 1, g.actions[1])

exploitAction(g, stateHash) ==
  exploitLoop(g.qTable, stateHash, g.actions, 1, g.actions[1])

\* random is the value Math.random() returns
exploreAction(g, random) ==
  g.actions[Floor(Times(random, <<Len(g.actions), 1>>)) + 1]

\* selectAction for the two values Math.random() returns: the action it
\* returns and the agent it leaves (getQValue adds an empty row for a state
\* hash the table does not hold)
selectAction(g, state, random1, random2) ==
  LET stateHash == hashState(state)
  IN IF Less(random1, g.performance.explorationRate)
       THEN [g |-> g, action |-> exploreAction(g, random2)]
       ELSE [g |-> [g EXCEPT !.qTable = qTableWith(@, stateHash)],
             action |-> exploitAction(g, stateHash)]

(* -------------------------- RewardCalculator --------------------------- *)
\* arithmetic on numbers one of which may be NaN: NaN in, NaN out
Lifted(Op(_, _), x, y) == IF x = NaN \/ y = NaN THEN NaN ELSE Op(x, y)

\* x < y, false when either side is NaN
LessNum(x, y) == x # NaN /\ y # NaN /\ Less(x, y)

\* features[key] || default: an absent feature and a 0 both give the default
OrDefault(features, key, default) ==
  IF key \in DOMAIN features /\ features[key] # Zero THEN features[key] ELSE default

\* an absent taskOutcome argument, and an absent userFeedback argument
NoOutcome ==
  [given |-> FALSE, success |-> FALSE, partial |-> FALSE, failure |-> FALSE,
   accuracy |-> Zero]

NoFeedback == [given |-> FALSE, value |-> Zero]

calculateTaskCompletionReward(outcome) ==
  IF ~outcome.given THEN Zero
  ELSE IF outcome.success THEN One
  ELSE IF outcome.partial THEN <<1, 2>>
  ELSE IF outcome.failure THEN <<-1, 2>>
  ELSE Zero

calculateUserSatisfactionReward(userFeedback) ==
  IF ~userFeedback.given THEN Zero
  ELSE Lifted(Over, Lifted(Minus, userFeedback.value, <<3, 1>>), <<2, 1>>)

calculateEfficiencyReward(action, currentState, nextState) ==
  LET currentLoad == currentState.context.systemLoad
      nextLoad == nextState.context.systemLoad
      loadImprovement == Minus(currentLoad, nextLoad)
      actionTime == <<nextState.timestamp - currentState.timestamp, 1>>
      timeEfficiency == MaxOf(Zero, Minus(One, Over(actionTime, <<10000, 1>>)))
      efficiencyReward ==
        Plus(Minus(Times(loadImprovement, <<1, 10>>), Times(action.cost, <<1, 20>>)),
             Times(timeEfficiency, <<1, 5>>))
  IN MaxOf(<<-1, 1>>, MinOf(One, efficiencyReward))

calculateAccuracyReward(outcome) ==
  IF ~outcome.given \/ outcome.accuracy = Zero THEN Zero
  ELSE IF ~Less(outcome.accuracy, <<9, 10>>) THEN One
  ELSE IF ~Less(outcome.accuracy, <<4, 5>>) THEN <<7, 10>>
  ELSE IF ~Less(outcome.accuracy, <<7, 10>>) THEN <<2, 5>>
  ELSE IF ~Less(outcome.accuracy, <<3, 5>>) THEN <<1, 10>>
  ELSE <<-1, 5>>

\* the array a state's context.previousActions refers to, [] for none
previousActionsOf(hp, state) ==
  IF state.context.previousActions = 0 THEN <<>>
  ELSE hp[state.context.previousActions]

calculatePenalties(hp, action, currentState, nextState) ==
  LET recentActions == previousActionsOf(hp, currentState)
      actionRepeats == Cardinality({i \in DOMAIN recentActions :
                                      recentActions[i] = action.id})
      errorPenalty == IF OrDefault(nextState.features, "hasError", Zero) # Zero
                        THEN <<1, 2>> ELSE Zero
      loadPenalty == IF Less(<<9, 10>>, nextState.context.systemLoad)
                       THEN <<3, 10>> ELSE Zero
      repeatPenalty == IF actionRepeats > 2
                         THEN Times(<<actionRepeats, 1>>, <<1, 10>>) ELSE Zero
  IN Plus(Plus(errorPenalty, loadPenalty), repeatPenalty)

\* Number.prototype.toString writes the number with an exponent ("1e-7"),
\* which the character whitelist of safeEvaluate rejects, or as "NaN"
TextRejected(x) ==
  x = NaN \/ (x # Zero /\ Less(AbsOf(x), <<1, 1000000>>))

\* A condition is held as [subject, op, value], standing for the text
\* "<subject> <op> <value>"; the subject "always" stands for the text "1",
\* any other subject that is no placeholder for text the whitelist rejects.
evaluateCondition(condition, action, nextState, breakdown) ==
  LET s == condition.subject
      x == IF s = "accuracy" THEN breakdown.accuracy
           ELSE IF s = "efficiency" THEN breakdown.efficiency
           ELSE IF s = "taskCompletion" THEN breakdown.taskCompletion
           ELSE IF s = "userSatisfaction" THEN breakdown.userSatisfaction
           ELSE IF s = "actionCost" THEN action.cost
           ELSE nextState.context.systemLoad
  IN IF s = "always" THEN TRUE
     ELSE IF s \notin {"accuracy", "efficiency", "taskCompletion",
                       "userSatisfaction", "actionCost", "systemLoad"} THEN FALSE
     ELSE IF TextRejected(x) THEN FALSE
     ELSE IF condition.op = ">" THEN Less(condition.value, x)
     ELSE IF condition.op = "<" THEN Less(x, condition.value)
     ELSE ~Less(x, condition.value)

RECURSIVE applyBonuses(_, _, _, _, _)
applyBonuses(finalReward, bonuses, action, nextState, breakdown) ==
  IF bonuses = <<>> THEN finalReward
  ELSE applyBonuses(
         IF evaluateCondition(Head(bonuses).condition, action, nextState, breakdown)
           THEN Lifted(Times, finalReward, Head(bonuses).multiplier)
           ELSE finalReward,
         Tail(bonuses), action, nextState, breakdown)

RECURSIVE applyPenalties(_, _, _, _, _)
applyPenalties(finalReward, penalties, action, nextState, breakdown) ==
  IF penalties = <<>> THEN finalReward
  ELSE applyPenalties(
         IF evaluateCondition(Head(penalties).condition, action, nextState, breakdown)
           THEN Lifted(Minus, finalReward, Head(penalties).reduction)
           ELSE finalReward,
         Tail(penalties), action, nextState, breakdown)

\* Math.max(-5, Math.min(5, finalReward))
clampReward(finalReward) ==
  Lifted(MaxOf, <<-5, 1>>, Lifted(MinOf, <<5, 1>>, finalReward))

applyBonusesAndPenalties(rewardFunction, baseReward, action, nextState, breakdown) ==
  LET afterBonuses == applyBonuses(baseReward, rewardFunction.bonuses,
                                   action, nextState, breakdown)
      finalReward == applyPenalties(afterBonuses, rewardFunction.penalties,
                                    action, nextState, breakdown)
  IN clampReward(finalReward)

\* Math.abs(x), NaN for NaN
AbsNum(x) == IF x = NaN THEN NaN ELSE AbsOf(x)

\* sources.reduce((max, current) => current.value > max.value ? current : max)
determinePrimarySource(breakdown) ==
  LET sources ==
        <<[value |-> AbsNum(breakdown.taskCompletion), source |-> "task_completion"],
          [value |-> AbsNum(breakdown.userSatisfaction), source |-> "user_feedback"],
          [value |-> AbsNum(breakdown.efficiency), source |-> "efficiency_gain"],
          [value |-> AbsNum(breakdown.accuracy), source |-> "performance_metric"]>>
      pick(max, current) == IF LessNum(max.value, current.value) THEN current ELSE max
  IN pick(pick(pick(sources[1], sources[2]), sources[3]), sources[4]).source

\* calculateReward on the calculator calc = [rewardFunction, rewardHistory]:
\* the calculator afterwards and the Reward returned
calculateReward(calc, hp, action, currentState, nextState, taskOutcome, userFeedback) ==
  LET w == calc.rewardFunction.weights
  IN With([taskCompletion |-> calculateTaskCompletionReward(taskOutcome),
           userSatisfaction |-> calculateUserSatisfactionReward(userFeedback),
           efficiency |-> calculateEfficiencyReward(action, currentState, nextState),
           accuracy |-> calculateAccuracyReward(taskOutcome),
           penalty |-> calculatePenalties(hp, action, currentState, nextState)],
          LAMBDA breakdown :
     With(Lifted(Minus,
            Lifted(Plus,
              Lifted(Plus,
                Lifted(Plus, Times(breakdown.taskCompletion, w.task_completion),
                             Lifted(Times, breakdown.userSatisfaction, w.user_feedback)),
                Times(breakdown.efficiency, w.efficiency_gain)),
              Times(breakdown.accuracy, w.performance_metric)),
            breakdown.penalty),
          LAMBDA weightedReward :
     With([value |-> applyBonusesAndPenalties(calc.rewardFunction, weightedReward,
                                              action, nextState, breakdown),
           source |-> determinePrimarySource(breakdown),
           breakdown |-> breakdown],
          LAMBDA reward :
       [calc |-> [calc EXCEPT !.rewardHistory = Append(@, reward)],
        reward |-> reward])))

\* new RewardCalculator(rewardFunction)
NewRewardCalculator(rewardFunction) ==
  [rewardFunction |-> rewardFunction, rewardHistory |-> <<>>]

(* ---------------------------- RLEnvironment ---------------------------- *)
\* this.environmentState after clear(), and the fields an environment has
\* once constructed; agents holds the ids of the registered agents in the
\* order of registration
ClearedEnvironmentState ==
  [set |-> FALSE, lastAction |-> "", lastAgent |-> "", stepCount |-> 0,
   overallPerformance |-> Zero, systemLoad |-> Zero]

NewEnvironment(environmentParams, options) ==
  [agents |-> <<>>,
   sharedRewards |-> options.sharedRewards,
   competitiveMode |-> options.competitiveMode,
   environmentParams |-> environmentParams,
   rewardCalculator |-> NewRewardCalculator(environmentParams.rewardFunction),
   environmentState |-> ClearedEnvironmentState,
   stepCount |-> 0,
   episodeActive |-> FALSE]

\* this.agents.find(a => a.id === agentId) finds an agent
Registered(e, agentId) == \E i \in DOMAIN e.agents : e.agents[i] = agentId

\* a world is the environment, the agents and the arrays of action ids that
\* states refer to: [env, rl, heap]
addAgent(w, agentId) ==
  IF Registered(w.env, agentId) THEN w
  ELSE [w EXCEPT !.env.agents = Append(@, agentId)]

\* features and context after the switch of applyActionEffects
actionEffects(action, features, context, now) ==
  IF action.name = "optimize_analysis"
    THEN [features |-> MapSet(features, "analysisQuality",
                         MinOf(One, Plus(OrDefault(features, "analysisQuality", <<1, 2>>),
                                         <<1, 10>>))),
          context |-> [context EXCEPT !.systemLoad =
                         MaxOf(Zero, Plus(IF @ = Zero THEN <<1, 2>> ELSE @, <<1, 10>>))]]
  ELSE IF action.name = "reduce_complexity"
    THEN [features |-> MapSet(features, "complexity",
                         MaxOf(Zero, Minus(OrDefault(features, "complexity", <<1, 2>>),
                                           <<1, 5>>))),
          context |-> [context EXCEPT !.systemLoad =
                         MaxOf(Zero, Minus(IF @ = Zero THEN <<1, 2>> ELSE @, <<1, 10>>))]]
  ELSE IF action.name = "enhance_accuracy"
    THEN [features |-> MapSet(
                         MapSet(features, "accuracy",
                           MinOf(One, Plus(OrDefault(features, "accuracy", <<7, 10>>),
                                           <<3, 20>>))),
                         "processingTime",
                         Times(OrDefault(features, "processingTime", One), <<6, 5>>)),
          context |-> context]
  ELSE IF action.name = "improve_efficiency"
    THEN [features |-> MapSet(
                         MapSet(features, "efficiency",
                           MinOf(One, Plus(OrDefault(features, "efficiency", <<3, 5>>),
                                           <<1, 10>>))),
                         "resourceUsage",
                         MaxOf(<<1, 10>>,
                               Minus(OrDefault(features, "resourceUsage", <<4, 5>>),
                                     <<1, 10>>))),
          context |-> context]
  ELSE [features |-> MapSet(features, "lastActionTime", <<now, 1>>),
        context |-> context]

\* the heap and the context after the action history update of
\* applyActionEffects: the array the context refers to is the one of the
\* state the context was copied from, and push and shift act on it in place
\* the action history update without the shift
pushActionKeepsAll(hp, context, actionId) ==
  IF context.previousActions = 0
    THEN [heap |-> Append(hp, <<actionId>>),
          context |-> [context EXCEPT !.previousActions = Len(hp) + 1]]
    ELSE [heap |-> [hp EXCEPT ![context.previousActions] = Append(@, actionId)],
          context |-> context]

pushAction(hp, context, actionId) ==
  IF context.previousActions = 0
    THEN [heap |-> Append(hp, <<actionId>>),
          context |-> [context EXCEPT !.previousActions = Len(hp) + 1]]
    ELSE LET pushed == Append(hp[context.previousActions], actionId)
             kept == IF Len(pushed) > 10 THEN Tail(pushed) ELSE pushed
         IN [heap |-> [hp EXCEPT ![context.previousActions] = kept],
             context |-> context]

\* features after addStateNoise, every Math.random() returning random
addStateNoise(features, noiseLevel, random) ==
  LET noisy == [key \in DOMAIN features |->
                  MaxOf(Zero, MinOf(One, Plus(features[key],
                                  Times(Minus(random, <<1, 2>>), noiseLevel))))]
  IN After(noisy, noisy)

updateSystemMetrics(features, context) ==
  LET complexityFactor == Times(OrDefault(features, "complexity", <<1, 2>>), <<3, 10>>)
      accuracyFactor == Times(OrDefault(features, "accuracy", <<7, 10>>), <<1, 5>>)
      overall ==
        Plus(Plus(Times(OrDefault(features, "accuracy", <<7, 10>>), <<2, 5>>),
                  Times(OrDefault(features, "efficiency", <<3, 5>>), <<3, 10>>)),
             Times(Minus(One, OrDefault(features, "complexity", <<1, 2>>)), <<3, 10>>))
  IN [features |-> MapSet(features, "overallPerformance", overall),
      context |-> [context EXCEPT !.systemLoad =
                     MinOf(One, Plus(Plus(<<3, 10>>, complexityFactor), accuracyFactor))]]

\* the heap afterwards and the state returned
applyStateTransition(hp, stateTransition, currentState, action, now, random) ==
  With(actionEffects(action, currentState.features, currentState.context, now),
       LAMBDA effects :
  With(pushAction(hp, effects.context, action.id), LAMBDA pushed :
  With(updateSystemMetrics(
         IF ~stateTransition.deterministic /\ stateTransition.noiseLevel # Zero
           THEN addStateNoise(effects.features, stateTransition.noiseLevel, random)
           ELSE effects.features,
         pushed.context), LAMBDA metrics :
    [heap |-> pushed.heap,
     nextState |-> [hash |-> <<>>, features |-> metrics.features,
                    context |-> metrics.context, timestamp |-> now]])))

evaluateTaskOutcome(currentState, nextState) ==
  LET of(state, key) == OrDefault(state.features, key, Zero)
      accuracy == Minus(of(nextState, "accuracy"), of(currentState, "accuracy"))
      efficiency == Minus(of(nextState, "efficiency"), of(currentState, "efficiency"))
      complexity == Minus(of(currentState, "complexity"), of(nextState, "complexity"))
  IN With(Plus(Plus(accuracy, efficiency), complexity), LAMBDA overallImprovement :
       [given |-> TRUE,
        success |-> Less(<<1, 10>>, overallImprovement),
        partial |-> Less(Zero, overallImprovement)
                      /\ ~Less(<<1, 10>>, overallImprovement),
        failure |-> Less(overallImprovement, Zero),
        accuracy |-> of(nextState, "accuracy")])

\* condition.value || default
ValueOr(condition, default) ==
  IF condition.value = Zero THEN default ELSE condition.value

\* no caller can set the key userInterrupt of the private environmentState
evaluateTerminationCondition(e, condition, state, agent) ==
  IF condition.type = "max_steps"
    THEN ~Less(<<e.stepCount, 1>>, ValueOr(condition, <<100, 1>>))
  ELSE IF condition.type = "goal_reached"
    THEN ~Less(OrDefault(state.features, "overallPerformance", Zero),
               ValueOr(condition, <<9, 10>>))
  ELSE IF condition.type = "performance_threshold"
    THEN ~Less(agent.averageReward, ValueOr(condition, One))
  ELSE FALSE

checkTerminationConditions(e, state, agent) ==
  \E i \in DOMAIN e.environmentParams.terminationConditions :
    evaluateTerminationCondition(e, e.environmentParams.terminationConditions[i],
                                 state, agent)

distributeSharedRewardUnreduced(e, learners, reward, sourceAgentId) ==
  [id \in DOMAIN learners |->
     IF Registered(e, id) /\ id # sourceAgentId
       THEN receiveReward(learners[id], reward.value) ELSE learners[id]]

\* the agents after the forEach of distributeSharedReward
distributeSharedReward(e, learners, reward, sourceAgentId) ==
  LET value == IF e.competitiveMode THEN Times(reward.value, <<3, 10>>)
               ELSE reward.value
  IN [id \in DOMAIN learners |->
        IF Registered(e, id) /\ id # sourceAgentId
          THEN receiveReward(learners[id], value) ELSE learners[id]]

updateEnvironmentState(e, agentId, action, state) ==
  [e EXCEPT !.environmentState =
     [set |-> TRUE, lastAction |-> action.id, lastAgent |-> agentId,
      stepCount |-> e.stepCount,
      overallPerformance |-> OrDefault(state.features, "overallPerformance", Zero),
      systemLoad |-> state.context.systemLoad]]

\* the value step returns when it throws
NoResult == [nextState |-> StateA, reward |-> [value |-> Zero], done |-> FALSE]

stepThrowsOnlyUnregistered(w, agentId) == ~Registered(w.env, agentId)

\* one of the two throw statements at the head of step is reached
stepThrows(w, agentId) ==
  ~w.env.episodeActive \/ ~Registered(w.env, agentId)

\* step(agentId, action, currentState) in world w at time now, every
\* Math.random() returning random: whether it throws, the world afterwards
\* and the value returned
step(w, agentId, action, currentState, now, random) ==
  IF stepThrows(w, agentId)
    THEN [threw |-> TRUE, world |-> w, result |-> NoResult]
  ELSE
    With([w.env EXCEPT !.stepCount = @ + 1], LAMBDA e1 :
    With(applyStateTransition(w.heap, e1.environmentParams.stateTransition,
                              currentState, action, now, random), LAMBDA moved :
    With(calculateReward(e1.rewardCalculator, moved.heap, action, currentState,
                         moved.nextState,
                         evaluateTaskOutcome(currentState, moved.nextState),
                         NoFeedback), LAMBDA calculated :
    With(checkTerminationConditions(e1, moved.nextState, w.rl[agentId]), LAMBDA done :
    With([state |-> currentState, action |-> action, reward |-> calculated.reward,
          nextState |-> moved.nextState, done |-> done], LAMBDA experience :
    With([w.rl EXCEPT ![agentId] =
            receiveReward(learn(w.rl[agentId], experience),
                          calculated.reward.value)], LAMBDA learners1 :
      [threw |-> FALSE,
       world |-> [env |-> updateEnvironmentState(
                            [e1 EXCEPT !.rewardCalculator = calculated.calc],
                            agentId, action, moved.nextState),
                  rl |-> IF e1.sharedRewards /\ Len(e1.agents) > 1
                           THEN distributeSharedReward(e1, learners1,
                                                       calculated.reward, agentId)
                           ELSE learners1,
                  heap |-> moved.heap],
       result |-> [nextState |-> moved.nextState, reward |-> calculated.reward,
                   done |-> done]]))))))

\* RLAgentBase.reset
\* Array.from(map.entries()): the entries of a Map in the order of insertion,
\* which the Map model does not keep: any one order of the keys
Entries(m) ==
  LET n == Cardinality(DOMAIN m)
      order == CHOOSE f \in [1..n -> DOMAIN m] :
                 \A i, j \in 1..n : f[i] = f[j] => i = j
  IN [i \in 1..n |-> <<order[i], m[order[i]]>>]

\* new Map(entries)
RECURSIVE NewMap(_)
NewMap(entries) ==
  IF entries = <<>> THEN EmptyMap
  ELSE LET last == entries[Len(entries)]
       IN MapSet(NewMap(SubSeq(entries, 1, Len(entries) - 1)), last[1], last[2])

\* { ...a, ...b }
Spread(a, b) ==
  [f \in (DOMAIN a) \cup (DOMAIN b) |-> IF f \in DOMAIN b THEN b[f] ELSE a[f]]

exportKnowledge(g) ==
  [qTable |->
     [states |-> With(Entries(g.qTable.states), LAMBDA es :
                   [i \in DOMAIN es |-> <<es[i][1], Entries(es[i][2])>>]),
      defaultValue |-> g.qTable.defaultValue],
   performance |-> g.performance,
   config |-> g.config]

\* importKnowledge without its second if statement
importKnowledgeTableOnly(g, knowledgeData) ==
  [g EXCEPT !.qTable.states =
              NewMap([i \in DOMAIN knowledgeData.qTable.states |->
                        <<knowledgeData.qTable.states[i][1],
                          NewMap(knowledgeData.qTable.states[i][2])>>]),
            !.qTable.defaultValue = knowledgeData.qTable.defaultValue,
            !.version = @ + 1]

\* knowledgeData is an object with a qTable and a performance, as
\* exportKnowledge returns it
importKnowledge(g, knowledgeData) ==
  [g EXCEPT !.qTable.states =
              NewMap([i \in DOMAIN knowledgeData.qTable.states |->
                        <<knowledgeData.qTable.states[i][1],
                          NewMap(knowledgeData.qTable.states[i][2])>>]),
            !.qTable.defaultValue = knowledgeData.qTable.defaultValue,
            !.performance = Spread(@, knowledgeData.performance),
            !.version = @ + 1]

resetAgent(g) ==
  [g EXCEPT !.episodeCount = 0,
            !.totalReward = Zero,
            !.averageReward = Zero,
            !.rewardHistory = <<>>,
            !.experienceBuffer = <<>>,
            !.learningEvents = <<>>,
            !.qTable.states = EmptyMap,
            !.performance.explorationRate = g.config.explorationRate,
            !.status = "idle"]

\* RLEnvironment.startEpisode; no training session is in progress
envStartEpisode(w) ==
  [w EXCEPT !.env.episodeActive = TRUE,
            !.env.stepCount = 0,
            !.rl = [id \in DOMAIN w.rl |->
                      IF Registered(w.env, id) THEN startEpisode(w.rl[id])
                      ELSE w.rl[id]]]

\* calculateEpisodeReward while no training session is in progress: the
\* events count whose timestamp is not before the new Date() of the call,
\* which are the latest sameInstant events of the log
calculateEpisodeReward(agent, sameInstant) ==
  LET events == agent.learningEvents
      recent == LastK(events, sameInstant)
      episodeRewards == SelectSeq(recent, LAMBDA ev : ev.type = "reward_received")
  IN SumOf([i \in DOMAIN episodeRewards |-> episodeRewards[i].v])

\* RLEnvironment.endEpisode
envEndEpisode(w, sameInstant) ==
  IF ~w.env.episodeActive THEN w
  ELSE [w EXCEPT !.env.episodeActive = FALSE,
                 !.rl = [id \in DOMAIN w.rl |->
                           IF Registered(w.env, id)
                             THEN endEpisode(w.rl[id],
                                    calculateEpisodeReward(w.rl[id], sameInstant))
                             ELSE w.rl[id]]]

\* RLEnvironment.reset
envReset(w) ==
  [w EXCEPT !.env.stepCount = 0,
            !.env.episodeActive = FALSE,
            !.env.environmentState = ClearedEnvironmentState,
            !.rl = [id \in DOMAIN w.rl |->
                      IF Registered(w.env, id) THEN resetAgent(w.rl[id])
                      ELSE w.rl[id]]]

(* ----------------------------- actions -------------------------------- *)
\* the orchestrator as its constructor leaves it
InitOrchestrator ==
  /\ tasks = <<>>
  /\ agents = [a \in AgentIds |->
                 [status |-> "idle", currentTask |-> NoTask, currentLoad |-> 0]]
  /\ taskQueue = <<>>
  /\ activeTasks = {}
  /\ completedTasks = <<>>
  /\ executing = {}

\* no learning environment or agent is in use
InitLearnersUnused ==
  /\ env = NoEnvironment
  /\ rl = [id \in RLAgentIds |-> NoAgent]
  /\ heap = <<>>
  /\ held = {}
  /\ call = NoCall
  /\ calls = 0

Init ==
  /\ InitOrchestrator
  /\ InitLearnersUnused

\* the handler's resulting state st becomes the next state
Becomes(st) ==
  /\ tasks' = st.tasks
  /\ agents' = st.agents
  /\ taskQueue' = st.taskQueue
  /\ activeTasks' = st.activeTasks
  /\ completedTasks' = st.completedTasks
  /\ executing' = st.executing
  /\ UNCHANGED rlVars

SubmitTask ==
  /\ Len(tasks) < MaxTasks
  /\ \E in \in SubmitInputs : Becomes(submitTask(State, in[1], in[2]))

\* one firing of the setInterval callback; handleMessages finds the message
\* queue empty (nothing enqueues), monitorAgentHealth and
\* optimizeResourceAllocation only log
Tick ==
  /\ Becomes(processTaskQueue(State))

\* the awaited strategy resolves
ExecuteTaskComplete ==
  /\ \E t \in executing : Becomes(executeTaskResolve(State, t))

\* the awaited strategy rejects (delegateToSpecializedAgent throws, or the
\* promise of a strategy is rejected): catch block, then finally
ExecuteTaskFail ==
  /\ \E t \in executing : Becomes(executeTaskReject(State, t))

\* ids range over the issued ids and one id that is never issued
CancelTask ==
  /\ \E id \in 1..(MaxTasks + 1) : Becomes(cancelTask(State, id).st)

Next ==
  \/ SubmitTask
  \/ Tick
  \/ ExecuteTaskComplete
  \/ ExecuteTaskFail
  \/ CancelTask

Spec == Init /\ [][Next]_vars

\* a tick would assign a task: the states in which <<Tick>>_vars is enabled
TickAssigns == processTaskQueue(State) # State

\* The interval timer keeps firing, and the timer an execution awaits
\* (simulateWork) runs out: a tick that would assign a task happens, and
\* while executions are under way one of them ends. This is WF_vars(Tick)
\* and WF_vars(ExecuteTaskComplete \/ ExecuteTaskFail) with each ENABLED
\* written as the state predicate it is equivalent to.
Fairness ==
  /\ []<>(~TickAssigns) \/ []<><<Tick>>_vars
  /\ []<>(executing = {}) \/ []<><<ExecuteTaskComplete \/ ExecuteTaskFail>>_vars

\* finitely many submissions: at most MaxLiveTasks of them
MaxLiveTasks == 2

SubmitTaskLive ==
  /\ Len(tasks) < MaxLiveTasks
  /\ \E in \in SubmitInputs : Becomes(submitTask(State, in[1], in[2]))

NextFair ==
  \/ SubmitTaskLive
  \/ Tick
  \/ ExecuteTaskComplete
  \/ ExecuteTaskFail
  \/ CancelTask

SpecFair == Init /\ [][NextFair]_vars /\ Fairness

(* ------------- actions: calls made directly on one agent -------------- *)
\* the agent the direct calls are made on
DirectAgent == "agent-1"

\* one agent is constructed with one of the configurations; no environment
InitAgent ==
  /\ InitOrchestrator
  /\ env = NoEnvironment
  /\ \E config \in LearningConfigs :
       rl = [id \in RLAgentIds |->
               IF id = DirectAgent THEN NewAgent(config, ActionSpace) ELSE NoAgent]
  /\ heap = <<>>
  /\ held = {}
  /\ call = NoCall
  /\ calls = 0

\* the agent's fields become g
AgentBecomes(g) ==
  /\ rl' = [rl EXCEPT ![DirectAgent] = g]
  /\ UNCHANGED <<orchVars, env, heap, held, call, calls>>

AgentLearn ==
  /\ Len(rl[DirectAgent].learningEvents) < MaxAgentCalls
  /\ \E experience \in DirectExperiences :
       AgentBecomes(learn(rl[DirectAgent], experience))

AgentReceiveReward ==
  /\ Len(rl[DirectAgent].learningEvents) < MaxAgentCalls
  /\ \E value \in DirectRewards :
       AgentBecomes(receiveReward(rl[DirectAgent], value))

AgentStartEpisode ==
  /\ Len(rl[DirectAgent].learningEvents) < MaxAgentCalls
  /\ AgentBecomes(startEpisode(rl[DirectAgent]))

AgentEndEpisode ==
  /\ Len(rl[DirectAgent].learningEvents) < MaxAgentCalls
  /\ \E episodeReward \in DirectRewards :
       AgentBecomes(endEpisode(rl[DirectAgent], episodeReward))

AgentSelectAction ==
  /\ \E state \in CallerStates, random \in SelectDraws :
       AgentBecomes(selectAction(rl[DirectAgent], state, random[1], random[2]).g)

NextAgent ==
  \/ AgentLearn
  \/ AgentReceiveReward
  \/ AgentStartEpisode
  \/ AgentEndEpisode
  \/ AgentSelectAction

SpecAgent == InitAgent /\ [][NextAgent]_vars

(* ---------------- a long-lived agent, called directly ------------------ *)
\* The configurations whose exploration rate has reached minExploration
\* after a few episodes.
SettlingConfigs == {c \in LearningConfigs : Less(c.explorationDecay, One)}

\* The agent base after MaxLearningProgress calls of endEpisode(0) followed
\* by as many calls of startEpisode as leave one free place in the event log.
SeasonedAgent(base) ==
  LET ended == MaxLearningProgress
      started == MaxLearningEvents - 1 - ended - Len(base.learningEvents)
      floor == base.config.minExploration
  IN [base EXCEPT
        !.status = "learning",
        !.episodeCount = started,
        !.rewardHistory = [i \in 1..ended |-> Zero],
        !.performance.episodesCompleted = started,
        !.performance.explorationRate = floor,
        !.performance.learningProgress =
           [i \in 1..ended |-> [episode |-> 0, reward |-> Zero]],
        !.learningEvents = @ \o
           [i \in 1..(ended + started) |->
              IF i <= ended
                THEN [type |-> "episode_complete", n |-> 0, v |-> Zero]
                ELSE [type |-> "episode_start", n |-> i - ended, v |-> floor]]]

\* a new agent, or one that has learned the same experience twice
SeasonedBases ==
  UNION {{NewAgent(config, ActionSpace)} \cup
         {learn(learn(NewAgent(config, ActionSpace), e), e) :
            e \in DirectExperiences} : config \in SettlingConfigs}

InitSeasoned ==
  /\ InitOrchestrator
  /\ env = NoEnvironment
  /\ \E base \in SeasonedBases, config \in LearningConfigs \ SettlingConfigs :
       rl = [id \in RLAgentIds |->
               IF id = DirectAgent THEN SeasonedAgent(base)
               ELSE NewAgent(config, ActionSpace)]
  /\ heap = <<>>
  /\ held = {}
  /\ call = NoCall
  /\ calls = 0

\* one more call of the agent, whose fields become g
SeasonedBecomes(g) ==
  /\ calls < MaxAgentCalls
  /\ rl' = [rl EXCEPT ![DirectAgent] = g]
  /\ calls' = calls + 1
  /\ UNCHANGED <<orchVars, env, heap, held, call>>

SeasonedLearn ==
  \E experience \in DirectExperiences :
    SeasonedBecomes(learn(rl[DirectAgent], experience))

SeasonedReceiveReward ==
  \E value \in DirectRewards :
    SeasonedBecomes(receiveReward(rl[DirectAgent], value))

SeasonedStartEpisode == SeasonedBecomes(startEpisode(rl[DirectAgent]))

SeasonedEndEpisode ==
  \E episodeReward \in DirectRewards :
    SeasonedBecomes(endEpisode(rl[DirectAgent], episodeReward))

\* the agent imports what it exports
SeasonedImportKnowledge ==
  SeasonedBecomes(importKnowledge(rl[DirectAgent],
                                  exportKnowledge(rl[DirectAgent])))

\* the other agent, new at first, imports what the agent exports
SeasonedHandOver ==
  /\ calls < MaxAgentCalls
  /\ \E other \in RLAgentIds \ {DirectAgent} :
       rl' = [rl EXCEPT ![other] =
                importKnowledge(rl[other], exportKnowledge(rl[DirectAgent]))]
  /\ calls' = calls + 1
  /\ UNCHANGED <<orchVars, env, heap, held, call>>

NextSeasoned ==
  \/ SeasonedLearn
  \/ SeasonedReceiveReward
  \/ SeasonedStartEpisode
  \/ SeasonedEndEpisode
  \/ SeasonedImportKnowledge
  \/ SeasonedHandOver

SpecSeasoned == InitSeasoned /\ [][NextSeasoned]_vars

(* ------------------- a worker's performance record --------------------- *)
MaxExecutions == 4

\* agent.performance without currentLoad, as the constructor sets it
NewPerformance ==
  [tasksCompleted |-> 0, averageTime |-> Zero, successRate |-> <<100, 1>>]

\* milliseconds between startedAt and completedAt
ExecutionTimes == {<<0, 1>>, <<1000, 1>>, <<2500, 1>>}

updateAgentPerformance(perf, executionTime, success) ==
  IF success
    THEN LET completed == perf.tasksCompleted + 1
         IN [tasksCompleted |-> completed,
             averageTime |->
               Over(Plus(Times(perf.averageTime, <<completed - 1, 1>>),
                         executionTime), <<completed, 1>>),
             successRate |->
               Over(Plus(Times(perf.successRate, <<completed - 1, 1>>),
                         <<100, 1>>), <<completed, 1>>)]
    ELSE [perf EXCEPT !.successRate =
            Over(Times(@, <<perf.tasksCompleted, 1>>),
                 <<perf.tasksCompleted + 1, 1>>)]

\* call holds the worker's performance and, in order, whether each of its
\* executions so far succeeded
InitWorker ==
  /\ InitOrchestrator
  /\ env = NoEnvironment
  /\ rl = [id \in RLAgentIds |-> NoAgent]
  /\ heap = <<>>
  /\ held = {}
  /\ calls = 0
  /\ call = [performance |-> NewPerformance, outcomes |-> <<>>]

\* an execution ends: executeTask calls updateAgentPerformance with the time
\* taken and true from the try block, with 0 and false from the catch block
ExecutionEnds ==
  /\ Len(call.outcomes) < MaxExecutions
  /\ \E success \in BOOLEAN :
       \E executionTime \in IF success THEN ExecutionTimes ELSE {Zero} :
         call' = [performance |->
                    updateAgentPerformance(call.performance, executionTime,
                                           success),
                  outcomes |-> Append(call.outcomes, success)]
  /\ UNCHANGED <<orchVars, env, rl, heap, held, calls>>

SpecWorker == InitWorker /\ [][ExecutionEnds]_vars

(* ------- actions: the deterministic single-state environment ---------- *)
\* configurations with a constant learning rate in (0, 1] and a discount
\* factor in [0, 1)
BanditConfigs ==
  {[algorithm |-> "q-learning", learningRate |-> lr, discountFactor |-> df,
    explorationRate |-> <<1, 10>>, explorationDecay |-> <<1, 1>>,
    minExploration |-> <<1, 10>>, memorySize |-> 0] :
     lr \in {<<1, 4>>, <<1, 2>>, <<1, 1>>},
     df \in {<<-1, 2>>, <<0, 1>>, <<1, 2>>, <<3, 4>>}}

\* the experience the single-state environment gives for the action at
\* position i: reward 1 for the first action, 0 for the others, never done
BanditExperience(i) ==
  Experience(StateA, i, IF i = 1 THEN <<1, 1>> ELSE <<0, 1>>, StateA, FALSE)

InitBandit ==
  /\ InitOrchestrator
  /\ env = NoEnvironment
  /\ \E config \in BanditConfigs :
       rl = [id \in RLAgentIds |->
               IF id = DirectAgent THEN NewAgent(config, ActionSpace) ELSE NoAgent]
  /\ heap = <<>>
  /\ held = {}
  /\ call = NoCall
  /\ calls = 0

BanditLearn ==
  /\ rl[DirectAgent].version <= MaxUpdates
  /\ \E i \in DOMAIN ActionSpace :
       AgentBecomes(learn(rl[DirectAgent], BanditExperience(i)))

NextBandit ==
  \/ BanditLearn

SpecBandit == InitBandit /\ [][NextBandit]_vars

(* ------- actions: one calculateReward call on a reward calculator ------ *)
\* RewardFunction objects a calculator is constructed with: unit weights
\* with a bonus and a penalty on placeholders, large weights with a bonus
\* that always applies and a condition the whitelist rejects, and negative
\* weights, multiplier and reduction
UnitRewardFunction ==
  [weights |-> [task_completion |-> One, user_feedback |-> One,
                efficiency_gain |-> One, performance_metric |-> One],
   bonuses |-> <<[condition |-> [subject |-> "accuracy", op |-> ">", value |-> <<1, 2>>],
                  multiplier |-> <<3, 2>>]>>,
   penalties |-> <<[condition |-> [subject |-> "systemLoad", op |-> ">", value |-> <<4, 5>>],
                    reduction |-> <<1, 2>>]>>]

RewardFunctions ==
  {UnitRewardFunction,
   [weights |-> [task_completion |-> <<100, 1>>, user_feedback |-> <<100, 1>>,
                 efficiency_gain |-> <<100, 1>>, performance_metric |-> <<100, 1>>],
    bonuses |-> <<[condition |-> [subject |-> "always", op |-> ">", value |-> Zero],
                   multiplier |-> <<10, 1>>]>>,
    penalties |-> <<[condition |-> [subject |-> "goal", op |-> ">", value |-> Zero],
                     reduction |-> One]>>],
   [weights |-> [task_completion |-> <<-100, 1>>, user_feedback |-> <<1, 2>>,
                 efficiency_gain |-> Zero, performance_metric |-> <<-1, 1>>],
    bonuses |-> <<[condition |-> [subject |-> "userSatisfaction", op |-> ">=", value |-> Zero],
                   multiplier |-> <<-10, 1>>]>>,
    penalties |-> <<[condition |-> [subject |-> "always", op |-> ">", value |-> Zero],
                     reduction |-> <<-1000, 1>>]>>]}

\* the arrays of action ids that exist before the call
RewardHeap == <<<<"a1", "a1", "a2", "a1">>>>

\* a state whose recent actions are the array above, and a later state with
\* an error and a high system load
StateR ==
  [hash |-> <<>>, features |-> [accuracy |-> <<7, 10>>],
   context |-> [systemLoad |-> <<1, 5>>, previousActions |-> 1], timestamp |-> 0]

StateE ==
  [hash |-> <<>>, features |-> [accuracy |-> <<1, 2>>, hasError |-> One],
   context |-> [systemLoad |-> <<19, 20>>, previousActions |-> 1], timestamp |-> 20000]

\* pairs of current and next state handed to calculateReward
RewardStatePairs == {<<StateA, StateB>>, <<StateB, StateA>>, <<StateR, StateE>>}

\* task outcomes handed to calculateReward
TaskOutcomes ==
  {NoOutcome,
   [given |-> TRUE, success |-> TRUE, partial |-> FALSE, failure |-> FALSE,
    accuracy |-> <<19, 20>>],
   [given |-> TRUE, success |-> FALSE, partial |-> FALSE, failure |-> TRUE,
    accuracy |-> <<1, 2>>]}

\* user feedback handed to calculateReward: none, values of the 1-5 scale,
\* a value far off the scale, and NaN
UserFeedbacks ==
  {NoFeedback} \cup {[given |-> TRUE, value |-> v] : v \in {<<1, 1>>, <<5, 1>>, <<1000, 1>>, NaN}}

InitReward ==
  /\ InitOrchestrator
  /\ env = NoEnvironment
  /\ rl = [id \in RLAgentIds |-> NoAgent]
  /\ heap = RewardHeap
  /\ held = {}
  /\ calls = 0
  /\ \E rewardFunction \in RewardFunctions, i \in DOMAIN ActionSpace,
        states \in RewardStatePairs, taskOutcome \in TaskOutcomes,
        userFeedback \in UserFeedbacks :
       call = [calc |-> NewRewardCalculator(rewardFunction),
               action |-> ActionSpace[i],
               currentState |-> states[1], nextState |-> states[2],
               taskOutcome |-> taskOutcome, userFeedback |-> userFeedback,
               returned |-> <<>>]

CalculateReward ==
  /\ call.returned = <<>>
  /\ LET r == calculateReward(call.calc, heap, call.action, call.currentState,
                              call.nextState, call.taskOutcome, call.userFeedback)
     IN call' = [call EXCEPT !.calc = r.calc, !.returned = <<r.reward>>]
  /\ UNCHANGED <<orchVars, env, rl, heap, held, calls>>

NextReward ==
  \/ CalculateReward

SpecReward == InitReward /\ [][NextReward]_vars

(* ------------- actions: an environment with two agents ----------------- *)
\* the environments a caller constructs: the options sharedRewards and
\* competitiveMode in their four combinations, each with one termination
\* condition; the third one adds noise to the features
EnvironmentConfigs ==
  {[options |-> [sharedRewards |-> FALSE, competitiveMode |-> FALSE],
    stateTransition |-> [deterministic |-> TRUE, noiseLevel |-> Zero],
    terminationConditions |-> <<[type |-> "max_steps", value |-> <<2, 1>>]>>],
   [options |-> [sharedRewards |-> TRUE, competitiveMode |-> FALSE],
    stateTransition |-> [deterministic |-> TRUE, noiseLevel |-> Zero],
    terminationConditions |-> <<[type |-> "goal_reached", value |-> <<7, 10>>]>>],
   [options |-> [sharedRewards |-> TRUE, competitiveMode |-> TRUE],
    stateTransition |-> [deterministic |-> FALSE, noiseLevel |-> <<1, 5>>],
    terminationConditions |-> <<[type |-> "performance_threshold", value |-> Zero]>>],
   [options |-> [sharedRewards |-> FALSE, competitiveMode |-> TRUE],
    stateTransition |-> [deterministic |-> TRUE, noiseLevel |-> Zero],
    terminationConditions |-> <<[type |-> "user_interrupt", value |-> Zero]>>]}

\* the configuration of each agent: q-learning for the first, dqn for the
\* second
EnvAgentConfig(id) ==
  CHOOSE c \in LearningConfigs :
    /\ c.learningRate = <<1, 2>>
    /\ c.algorithm = IF id = DirectAgent THEN "q-learning" ELSE "dqn"

\* what new Date() and Date.now() return during a step, in milliseconds
Clock == {5000}

\* how many of the latest events of an agent's log carry the time at which
\* endEpisode runs
SameInstants == {0, 2}

\* what Math.random() returns in an environment with these parameters
NoiseDraws(stateTransition) ==
  IF stateTransition.deterministic THEN {<<1, 2>>} ELSE {<<0, 1>>, <<1, 2>>}

World == [env |-> env, rl |-> rl, heap |-> heap]

\* the recent-action history of a state a caller constructs: n action ids
CallerHistory(n) == [k \in 1..n |-> ActionSpace[1 + (k % Len(ActionSpace))].id]

\* what a caller holds before the first step: a state without a history, or
\* one whose history has one place left
CallerStarts ==
  {[heap |-> <<>>, state |-> StateA],
   [heap |-> <<CallerHistory(9)>>,
    state |-> [StateA EXCEPT !.context.previousActions = 1]]}

InitEnv ==
  /\ InitOrchestrator
  /\ \E config \in EnvironmentConfigs :
       env = NewEnvironment(
               [rewardFunction |-> UnitRewardFunction,
                stateTransition |-> config.stateTransition,
                terminationConditions |-> config.terminationConditions],
               config.options)
  /\ rl = [id \in RLAgentIds |-> NewAgent(EnvAgentConfig(id), ActionSpace)]
  /\ \E start \in CallerStarts :
       /\ heap = start.heap
       /\ held = {start.state}
  /\ call = NoCall
  /\ calls = 0

\* the caller makes one more call, after which the environment, the agents
\* and the arrays are those of world w
EnvBecomes(w) ==
  /\ calls < MaxEnvCalls
  /\ calls' = calls + 1
  /\ env' = w.env
  /\ rl' = w.rl
  /\ heap' = w.heap
  /\ UNCHANGED <<orchVars, call>>

EnvAddAgent ==
  /\ \E id \in RLAgentIds : EnvBecomes(addAgent(World, id))
  /\ UNCHANGED held

EnvStartEpisode ==
  /\ EnvBecomes(envStartEpisode(World))
  /\ UNCHANGED held

EnvEndEpisode ==
  /\ \E sameInstant \in SameInstants : EnvBecomes(envEndEpisode(World, sameInstant))
  /\ UNCHANGED held

EnvStep ==
  /\ calls < MaxEnvCalls
  /\ \E agentId \in RLAgentIds \cup {UnknownAgentId}, i \in DOMAIN ActionSpace,
        currentState \in held, now \in Clock,
        random \in NoiseDraws(env.environmentParams.stateTransition) :
       \E r \in {step(World, agentId, ActionSpace[i], currentState, now, random)} :
          /\ EnvBecomes(r.world)
          /\ held' = IF r.threw THEN held ELSE held \cup {r.result.nextState}

EnvReset ==
  /\ EnvBecomes(envReset(World))
  /\ UNCHANGED held

NextEnv ==
  \/ EnvAddAgent
  \/ EnvStartEpisode
  \/ EnvEndEpisode
  \/ EnvStep
  \/ EnvReset

SpecEnv == InitEnv /\ [][NextEnv]_vars

(* ------------------------ derived notions ----------------------------- *)
\* tasks in flight that name worker a
InFlightOf(a) ==
  {t \in TaskIds : tasks[t].status \in InFlightStatus /\ tasks[t].assignedAgent = a}

Weight(t) == priorityWeight[tasks[t].priority]

\* worker a is capable of handling task t
Capable(a, t) == canAgentHandleTask(AgentCapabilities[a], tasks[t].type)

\* task t is assigned to a worker by this step
AssignedInStep(t) ==
  tasks[t].status = "pending" /\ tasks'[t].status \in InFlightStatus

\* position at which the tick starting in this state serves idle worker a
ServedAt(a) ==
  LET av == availableAgents(State)
  IN CHOOSE i \in DOMAIN av : av[i] = a

\* task u is still pending when the tick that assigns t reaches t's worker
PendingWhenAssigned(u, t) ==
  /\ tasks[u].status = "pending"
  /\ AssignedInStep(u) =>
       ServedAt(tasks'[u].assignedAgent) >= ServedAt(tasks'[t].assignedAgent)

StatusRank(s) ==
  CASE s = "pending" -> 0 [] s = "assigned" -> 1 [] s = "running" -> 2
    [] OTHER -> 3

(* ------------------------------ claims -------------------------------- *)

HighestPriorityFirst ==
  [][\A t \in TaskIds :
       AssignedInStep(t) =>
         \A u \in TaskIds :
           (PendingWhenAssigned(u, t) /\ Capable(tasks'[t].assignedAgent, u))
             => Weight(u) <= Weight(t)]_vars

\* C2 witness: a task runs on a worker while an earlier-submitted task of
\* strictly lower priority that the same worker can handle is still pending.
HigherPriorityOvertook ==
  \E t \in TaskIds, u \in TaskIds :
    /\ u < t
    /\ tasks[t].status = "running"
    /\ tasks[u].status = "pending"
    /\ Capable(tasks[t].assignedAgent, u)
    /\ Weight(u) < Weight(t)

\* C3: a task's status only moves forward along pending -> assigned ->
\* running -> {completed, failed}, cancelled is entered only from a
\* non-terminal status, and a terminal status never changes again.
StatusMonotonic ==
  [][\A t \in TaskIds :
       tasks'[t].status # tasks[t].status =>
         /\ tasks[t].status \notin TerminalStatus
         /\ \/ tasks'[t].status = "cancelled"
            \/ StatusRank(tasks'[t].status) > StatusRank(tasks[t].status)]_vars

\* C4: cancelTask on a task that is already completed, failed or cancelled
\* returns false and leaves the whole orchestrator state as it was.
CancelTerminalIsNoOp ==
  \A id \in TaskIds :
    tasks[id].status \in TerminalStatus =>
      cancelTask(State, id) = [st |-> State, ret |-> FALSE]

\* C5: cancelTask on an assigned or running task returns true, sets it to
\* cancelled, makes its worker idle with no current task and lowers that
\* worker's load by exactly 1, leaving other workers unchanged; on a pending
\* task it returns true and changes no worker; on an unknown id it returns
\* false and changes nothing.
CancelContract ==
  \A id \in 1..(MaxTasks + 1) :
    LET r == cancelTask(State, id)
    IN IF id \notin TaskIds
         THEN r = [st |-> State, ret |-> FALSE]
         ELSE /\ tasks[id].status \in InFlightStatus =>
                   LET a == tasks[id].assignedAgent
                   IN /\ r.ret
                      /\ r.st.tasks[id].status = "cancelled"
                      /\ r.st.agents[a] =
                           [status |-> "idle", currentTask |-> NoTask,
                            currentLoad |-> agents[a].currentLoad - 1]
                      /\ \A b \in AgentIds \ {a} : r.st.agents[b] = agents[b]
              /\ tasks[id].status = "pending" =>
                   /\ r.ret
                   /\ r.st.agents = agents

\* C6: a worker has a current task if and only if its status is busy.
CurrentTaskIffBusy ==
  \A a \in AgentIds :
    (agents[a].currentTask # NoTask) <=> (agents[a].status = "busy")

\* C6 witness: one worker is busy on its current task while another task has
\* already been released by a completion, a failure or a cancellation.
BusyAndReleased ==
  /\ \E a \in AgentIds :
       agents[a].status = "busy" /\ agents[a].currentTask # NoTask
  /\ \E t \in TaskIds :
       /\ tasks[t].assignedAgent # NoAgent
       /\ tasks[t].status \in TerminalStatus
       /\ agents[tasks[t].assignedAgent].status = "idle"

\* C7: each worker's currentLoad equals the number of in-flight tasks
\* assigned to it, and is never negative.
LoadMatchesInFlight ==
  \A a \in AgentIds :
    /\ agents[a].currentLoad = Cardinality(InFlightOf(a))
    /\ agents[a].currentLoad >= 0

\* C8: when the execution strategy raises for a task, the task becomes failed
\* with an error output, its worker becomes idle with no current task and its
\* load is decremented; no other task's status and no other worker's status
\* or current task changes, and the next tick still assigns a pending task
\* the released worker can handle.
FailureIsolated ==
  \A t \in executing :
    LET a == tasks[t].assignedAgent
        r == executeTaskReject(State, t)
        n == processTaskQueue(r)
    IN /\ r.tasks[t].status = "failed"
       /\ r.tasks[t].output = "error"
       /\ r.agents[a].status = "idle"
       /\ r.agents[a].currentTask = NoTask
       /\ r.agents[a].currentLoad = agents[a].currentLoad - 1
       /\ \A u \in TaskIds \ {t} : r.tasks[u].status = tasks[u].status
       /\ \A b \in AgentIds \ {a} :
            /\ r.agents[b].status = agents[b].status
            /\ r.agents[b].currentTask = agents[b].currentTask
       /\ (\E u \in TaskIds : tasks[u].status = "pending" /\ Capable(a, u))
            => n.agents[a].status = "busy"

\* C9: a task is only ever assigned to a worker whose declared capabilities
\* share at least one capability with the required set of the task's type;
\* a worker with no capability can handle no task type.
AssignedOnlyIfCapable ==
  /\ \A t \in TaskIds :
       tasks[t].assignedAgent # NoAgent =>
         taskCapabilityMap[tasks[t].type]
           \cap AgentCapabilities[tasks[t].assignedAgent] # {}
  /\ \A tt \in TaskType : ~canAgentHandleTask({}, tt)

\* C9 witness: a later-submitted task has been assigned while an earlier
\* task stays pending, and some worker lacks every capability it requires.
IncapableWorkerPassedOver ==
  \E t \in TaskIds, u \in TaskIds :
    /\ u < t
    /\ tasks[t].assignedAgent # NoAgent
    /\ tasks[u].status = "pending"
    /\ \E b \in AgentIds : agents[b].status = "idle" /\ ~Capable(b, u)

\* C10: the pending queue is ordered by non-increasing priority weight with
\* equal priorities in submission order, and among equal-priority tasks a
\* worker can handle the earliest submitted one is assigned first.
QueueOrdered ==
  \A i \in DOMAIN taskQueue, j \in DOMAIN taskQueue :
    i < j =>
      \/ Weight(taskQueue[i]) > Weight(taskQueue[j])
      \/ Weight(taskQueue[i]) = Weight(taskQueue[j]) /\ taskQueue[i] < taskQueue[j]

FifoAmongEqualPriority ==
  /\ []QueueOrdered
  /\ [][\A t \in TaskIds :
          AssignedInStep(t) =>
            \A u \in TaskIds :
              (/\ PendingWhenAssigned(u, t)
               /\ Capable(tasks'[t].assignedAgent, u)
               /\ Weight(u) = Weight(t))
                => t <= u]_vars

\* C10 witness: of two equal-priority tasks of one type the earlier one is
\* running and the later one waits in a queue that also holds another
\* priority.
EarlierOfEqualsRuns ==
  \E t \in TaskIds, u \in TaskIds :
    /\ t < u
    /\ tasks[t].priority = tasks[u].priority
    /\ tasks[t].type = tasks[u].type
    /\ tasks[t].status = "running"
    /\ tasks[u].status = "pending"
    /\ \E i \in DOMAIN taskQueue : Weight(taskQueue[i]) # Weight(u)

\* the scenario of C11: t (critical) and u (low) are the only pending tasks,
\* and w is the one idle worker holding a capability either of them requires
TickScenario(t, u, w) ==
  /\ tasks[t].priority = "critical"
  /\ tasks[u].priority = "low"
  /\ {x \in TaskIds : tasks[x].status = "pending"} = {t, u}
  /\ {a \in AgentIds :
        agents[a].status = "idle" /\ (Capable(a, t) \/ Capable(a, u))} = {w}
  /\ Capable(w, t)
  /\ Capable(w, u)

\* what one tick leaves in the scenario, with the status given to the
\* critical task as a parameter
TickOutcome(t, u, w, status) ==
  LET n == processTaskQueue(State)
  IN /\ n.tasks[t].status = status
     /\ n.tasks[t].assignedAgent = w
     /\ n.agents[w].currentTask = t
     /\ n.agents[w].status = "busy"
     /\ n.tasks[u].status = "pending"
     /\ \E i \in DOMAIN n.taskQueue : n.taskQueue[i] = u

\* C11 (as stated): with one critical and one low task pending that both
\* need a capability held by exactly one idle worker, the state after one
\* tick has the critical task in status assigned, with that worker as its
\* assigned worker and as the worker's current task, the worker busy, and
\* the low task still pending in the queue.
TickLeavesCriticalAssigned ==
  \A t \in TaskIds, u \in TaskIds, w \in AgentIds :
    TickScenario(t, u, w) => TickOutcome(t, u, w, "assigned")

\* C11 (amended): in the same scenario the state after one tick has the
\* critical task in status running (assigned is set and overwritten inside
\* the tick), with that worker as its assigned worker and as the worker's
\* current task, the worker busy, and the low task still pending in the
\* queue.
TickLeavesCriticalRunning ==
  \A t \in TaskIds, u \in TaskIds, w \in AgentIds :
    TickScenario(t, u, w) => TickOutcome(t, u, w, "running")

\* C11 witness: a critical task runs as the current task of its busy worker
\* while a low task the same worker can handle is the only pending task and
\* waits in the queue.
CriticalRunsLowWaits ==
  \E t \in TaskIds, u \in TaskIds :
    /\ tasks[t].priority = "critical"
    /\ tasks[t].status = "running"
    /\ tasks[t].assignedAgent # NoAgent
    /\ agents[tasks[t].assignedAgent].currentTask = t
    /\ agents[tasks[t].assignedAgent].status = "busy"
    /\ tasks[u].priority = "low"
    /\ {x \in TaskIds : tasks[x].status = "pending"} = {u}
    /\ Capable(tasks[t].assignedAgent, u)
    /\ taskQueue = <<u>>

\* C12: cancelTask may come between any two scheduler steps; a task that has
\* been cancelled (its status is then cancelled, completed or failed, never
\* pending again) is never afterwards assigned to a worker or started: only
\* a task whose status is pending gets a worker, enters the active set,
\* becomes assigned or running, or has its execution started.
NeverAssignedAfterCancel ==
  [][\A t \in TaskIds :
       tasks[t].status # "pending" =>
         /\ tasks'[t].status # "pending"
         /\ tasks'[t].assignedAgent = tasks[t].assignedAgent
         /\ (tasks'[t].status \in InFlightStatus
               => tasks[t].status \in InFlightStatus)
         /\ (t \in activeTasks' => t \in activeTasks)
         /\ (t \in executing' => t \in executing)]_vars

\* C12 witness: a task cancelled while pending is still in the queue without
\* a worker, and a later-submitted task of the same type and no higher
\* priority has been started past it.
CancelledPassedOver ==
  \E t \in TaskIds, u \in TaskIds :
    /\ t < u
    /\ tasks[t].status = "cancelled"
    /\ tasks[t].assignedAgent = NoAgent
    /\ \E i \in DOMAIN taskQueue : taskQueue[i] = t
    /\ tasks[u].type = tasks[t].type
    /\ Weight(u) <= Weight(t)
    /\ tasks[u].status = "running"

(* -------------------- claims on the learning agent -------------------- *)
\* Q(s, a): the value the table holds for the pair, the table default for a
\* pair without a stored value
QValue(q, stateHash, actionId) ==
  IF stateHash \in DOMAIN q.states /\ actionId \in DOMAIN q.states[stateHash]
    THEN q.states[stateHash][actionId]
    ELSE q.defaultValue

\* the (state, action) pairs that have a stored value
QPairs(q) ==
  UNION {{<<h, a>> : a \in DOMAIN q.states[h]} : h \in DOMAIN q.states}

\* the largest value stored for a state, the default when none is stored
MaxStored(q, stateHash) ==
  LET stored == {p \in QPairs(q) : p[1] = stateHash}
  IN IF stored = {} THEN q.defaultValue
     ELSE MaxOfSet({q.states[p[1]][p[2]] : p \in stored})

\* Q + learningRate * (r + discountFactor * M - Q)
Bellman(config, oldQ, r, M) ==
  Plus(oldQ, Times(config.learningRate,
                   Minus(Plus(r, Times(config.discountFactor, M)), oldQ)))

\* the configuration and the experience of the worked example
ExampleConfig ==
  [algorithm |-> "q-learning", learningRate |-> <<1, 2>>,
   discountFactor |-> <<9, 10>>, explorationRate |-> <<1, 1>>,
   explorationDecay |-> <<1, 2>>, minExploration |-> <<1, 10>>,
   memorySize |-> 0]

ExampleExperience == Experience(StateA, 1, <<1, 1>>, StateA, FALSE)

ExplorationClosedForm(g) ==
  LET N == Len(g.performance.learningProgress)
  IN N >= 1 =>
       g.performance.explorationRate =
         MaxOf(g.config.minExploration,
               Times(g.config.explorationRate, Power(g.config.explorationDecay, N)))

ActionIndex(g, x) == CHOOSE i \in DOMAIN g.actions : g.actions[i] = x

\* C19: with explorationRate = 0, selectAction(state) returns an action
\* whose Q-value for hash(state) is maximal over the configured action space
\* (unseen pairs reading as the default value) and, among the actions tied
\* at that value, the earliest in the action-space order; for any
\* explorationRate the returned action is a member of the action space.
GreedySelection ==
  \A state \in CallerStates, random \in SelectDraws :
    LET g == rl[DirectAgent]
        x == selectAction(g, state, random[1], random[2]).action
        h == hashState(state)
    IN /\ \E i \in DOMAIN g.actions : g.actions[i] = x
       /\ g.performance.explorationRate = Zero =>
            \A j \in DOMAIN g.actions :
              /\ ~Less(QValue(g.qTable, h, x.id), QValue(g.qTable, h, g.actions[j].id))
              /\ QValue(g.qTable, h, g.actions[j].id) = QValue(g.qTable, h, x.id)
                   => ActionIndex(g, x) <= j

\* C19 witness: a greedy agent holds a negative value for the second action
\* of a state whose row was opened by a selection, the first and third
\* actions are unseen and tie at the default, and the first is selected.
GreedyTieGoesToFirst ==
  LET g == rl[DirectAgent]
      h == hashState(StateA)
  IN /\ g.performance.explorationRate = Zero
     /\ h \in DOMAIN g.qTable.states
     /\ DOMAIN g.qTable.states[h] = {"a2"}
     /\ Less(g.qTable.states[h]["a2"], Zero)
     /\ hashState(StateB) \in DOMAIN g.qTable.states
     /\ g.qTable.states[hashState(StateB)] = EmptyMap
     /\ selectAction(g, StateA, <<1, 2>>, <<1, 2>>).action.id = "a1"

\* reward / (1 - discountFactor) for the rewarded action of the
\* single-state environment
BanditLimit(g) == Over(<<1, 1>>, Minus(One, g.config.discountFactor))

\* the Q-value of the rewarded action in the single state
BanditQ(g) == QValue(g.qTable, hashState(StateA), "a1")

\* the latest learn call was on the rewarded action
RewardedActionLearned(g) ==
  /\ g.experienceBuffer # <<>>
  /\ g.experienceBuffer[Len(g.experienceBuffer)].action.id = "a1"

\* what C18 says of one step of the agent from g to n: the rewarded action's
\* Q-value does not decrease, does not exceed the limit, and an update of
\* that action shrinks its distance to the limit by at least the factor
\* 1 - learningRate * (1 - discountFactor) < 1
BanditStep(g, n) ==
  LET limit == BanditLimit(g)
      factor == Minus(One, Times(g.config.learningRate,
                                 Minus(One, g.config.discountFactor)))
  IN /\ ~Less(BanditQ(n), BanditQ(g))
     /\ ~Less(limit, BanditQ(n))
     /\ Less(factor, One)
     /\ (n.version = g.version + 1 /\ RewardedActionLearned(n)) =>
          ~Less(Times(factor, Minus(limit, BanditQ(g))),
                Minus(limit, BanditQ(n)))

\* C18 as stated: in the deterministic single-state environment where the
\* first action always yields reward 1 and the others 0, with a constant
\* learningRate in (0, 1] and any discountFactor < 1, the Q-value of the
\* rewarded action never decreases over non-terminal updates, never exceeds
\* 1 / (1 - discountFactor) and approaches that value.
BanditConvergesAnyDiscount ==
  [][BanditStep(rl[DirectAgent], rl'[DirectAgent])]_vars

\* C18 amended: the same with 0 <= discountFactor < 1.
BanditConverges ==
  [][~Less(rl[DirectAgent].config.discountFactor, Zero) =>
       BanditStep(rl[DirectAgent], rl'[DirectAgent])]_vars

\* C18 witness: after at least two updates of the rewarded action and one
\* of another action, the rewarded action's Q-value lies strictly between
\* its first value and the limit.
BanditPartWay ==
  LET g == rl[DirectAgent]
  IN /\ Cardinality({i \in DOMAIN g.experienceBuffer :
                       g.experienceBuffer[i].action.id = "a1"}) >= 2
     /\ \E i \in DOMAIN g.experienceBuffer : g.experienceBuffer[i].action.id = "a2"
     /\ ~Less(g.config.discountFactor, Zero)
     /\ Less(g.config.learningRate, BanditQ(g))
     /\ Less(BanditQ(g), BanditLimit(g))

(* --------------------- claims on the reward calculator ----------------- *)
\* -5 <= value <= 5, which no NaN satisfies
WithinRewardBounds(value) ==
  value # NaN /\ ~Less(value, <<-5, 1>>) /\ ~Less(<<5, 1>>, value)

\* C17: for any action, current and next state, task outcome, user feedback
\* and reward-function configuration, the value of the Reward returned by
\* calculateReward satisfies -5 <= value <= 5.
RewardClamped ==
  call.returned # <<>> => WithinRewardBounds(call.returned[1].value)

\* what holds instead: the bounds hold whenever the user feedback is absent
\* or a number
RewardClampedForNumbers ==
  (call.returned # <<>> /\ call.userFeedback.value # NaN)
    => WithinRewardBounds(call.returned[1].value)

\* a call has returned a reward at the upper bound that the clamp cut down
RewardCutDown ==
  /\ call.returned # <<>>
  /\ call.returned[1].value = <<5, 1>>
  /\ call.userFeedback.value = <<1000, 1>>

(* ----------------------- claims on the environment --------------------- *)
\* P holds of every step call EnvStep can make in the current state: of its
\* agent id, action and state, and of what step gives
EveryStep(P(_, _, _, _)) ==
  calls < MaxEnvCalls =>
    \A agentId \in RLAgentIds \cup {UnknownAgentId}, i \in DOMAIN ActionSpace,
       currentState \in held, now \in Clock,
       random \in NoiseDraws(env.environmentParams.stateTransition) :
      P(agentId, ActionSpace[i], currentState,
        step(World, agentId, ActionSpace[i], currentState, now, random))

\* C13: step() called while no episode is active, or for an agent id that is
\* not registered in the environment, raises an error to the caller and
\* leaves stepCount, the reward history, the environment state and every
\* agent's Q-table, experience buffer and reward totals unchanged.
StepRejectedCleanly ==
  LET P(agentId, action, currentState, r) ==
        (~env.episodeActive \/ ~Registered(env, agentId)) =>
          /\ r.threw
          /\ r.world.env.stepCount = env.stepCount
          /\ r.world.env.rewardCalculator.rewardHistory
               = env.rewardCalculator.rewardHistory
          /\ r.world.env.environmentState = env.environmentState
          /\ \A id \in RLAgentIds :
               /\ r.world.rl[id].qTable = rl[id].qTable
               /\ r.world.rl[id].experienceBuffer = rl[id].experienceBuffer
               /\ r.world.rl[id].totalReward = rl[id].totalReward
               /\ r.world.rl[id].averageReward = rl[id].averageReward
               /\ r.world.rl[id].rewardHistory = rl[id].rewardHistory
          /\ r.world = World
  IN EveryStep(P)

\* C13 witness: the caller can make a further call; either an episode is
\* active in which the first agent has stepped and the second agent is not
\* registered, so that a step of the second is refused, or the first agent
\* is registered and its episode has ended, so that its step is refused.
StepRefused ==
  /\ calls < MaxEnvCalls
  /\ Registered(env, DirectAgent)
  /\ \/ /\ env.episodeActive
        /\ rl[DirectAgent].experienceBuffer # <<>>
        /\ env.stepCount > 0
        /\ \E id \in RLAgentIds : ~Registered(env, id)
     \/ /\ ~env.episodeActive
        /\ rl[DirectAgent].episodeCount > 0

\* how often an event of the given type occurs in an agent's event log
EventCount(g, type) ==
  Cardinality({i \in DOMAIN g.learningEvents : g.learningEvents[i].type = type})

\* what C14 says of a successful step r of agent agentId, apart from the
\* Q-update: stepCount grows by 1, one reward is recorded, done is the
\* termination check of that step, the acting agent buffers the one
\* experience of the step, its learn and its receiveReward run once each,
\* and no other agent's Q-table or experience buffer changes
OneStepEffects(agentId, action, currentState, r) ==
  LET g == rl[agentId]
      n == r.world.rl[agentId]
      experience == [state |-> currentState, action |-> action,
                     reward |-> r.result.reward, nextState |-> r.result.nextState,
                     done |-> r.result.done]
  IN /\ r.world.env.stepCount = env.stepCount + 1
     /\ r.world.env.rewardCalculator.rewardHistory
          = Append(env.rewardCalculator.rewardHistory, r.result.reward)
     /\ r.result.done = checkTerminationConditions(
                          [env EXCEPT !.stepCount = @ + 1], r.result.nextState, g)
     /\ n.experienceBuffer = Append(g.experienceBuffer, experience)
     /\ EventCount(n, "state_transition") = EventCount(g, "state_transition") + 1
     /\ EventCount(n, "reward_received") = EventCount(g, "reward_received") + 1
     /\ n.rewardHistory = Append(g.rewardHistory, r.result.reward.value)
     /\ n.totalReward = Plus(g.totalReward, r.result.reward.value)
     /\ \A id \in RLAgentIds \ {agentId} :
          /\ r.world.rl[id].qTable = rl[id].qTable
          /\ r.world.rl[id].experienceBuffer = rl[id].experienceBuffer

\* the acting agent's table after the step is its table after one
\* Q-update with the experience of the step
OneQUpdate(agentId, action, currentState, r) ==
  LET g == rl[agentId]
      n == r.world.rl[agentId]
      h == hashState(currentState)
      M == IF r.result.done THEN Zero
           ELSE MaxStored(g.qTable, hashState(r.result.nextState))
  IN /\ n.version = g.version + 1
     /\ QPairs(n.qTable) = QPairs(g.qTable) \cup {<<h, action.id>>}
     /\ n.qTable.states[h][action.id]
          = Bellman(g.config, QValue(g.qTable, h, action.id),
                    r.result.reward.value, M)
     /\ \A p \in QPairs(g.qTable) \ {<<h, action.id>>} :
          n.qTable.states[p[1]][p[2]] = g.qTable.states[p[1]][p[2]]

\* C14 as stated: every successful step increases stepCount by exactly 1,
\* records exactly one reward, evaluates termination once and hands exactly
\* one experience to the acting agent, whose learn runs exactly once (one
\* Q-update, one buffered experience) and whose receiveReward runs exactly
\* once; no other agent's Q-table or experience buffer changes.
StepDoesEachThingOnce ==
  LET P(agentId, action, currentState, r) ==
        ~r.threw => /\ OneStepEffects(agentId, action, currentState, r)
                    /\ OneQUpdate(agentId, action, currentState, r)
  IN EveryStep(P)

\* C14 amended: the same, the Q-update being made when the acting agent's
\* algorithm is q-learning; with another algorithm its Q-table and the
\* version of its knowledge are unchanged.
StepDoesEachThingOnceQLearning ==
  LET P(agentId, action, currentState, r) ==
        ~r.threw =>
          /\ OneStepEffects(agentId, action, currentState, r)
          /\ IF rl[agentId].config.algorithm = "q-learning"
               THEN OneQUpdate(agentId, action, currentState, r)
               ELSE /\ r.world.rl[agentId].qTable = rl[agentId].qTable
                    /\ r.world.rl[agentId].version = rl[agentId].version
  IN EveryStep(P)

\* C14 witness: both agents are registered, the q-learning agent has made
\* one step, which left it one experience, one reward and one stored
\* Q-value, and the other agent's table and buffer are empty.
OneStepTaken ==
  /\ Len(env.agents) = 2
  /\ env.stepCount = 1
  /\ Len(env.rewardCalculator.rewardHistory) = 1
  /\ Len(rl[DirectAgent].experienceBuffer) = 1
  /\ rl[DirectAgent].version = 2
  /\ Cardinality(QPairs(rl[DirectAgent].qTable)) = 1
  /\ \A id \in RLAgentIds \ {DirectAgent} :
       rl[id].experienceBuffer = <<>> /\ QPairs(rl[id].qTable) = {}

\* agent id has received value v through receiveReward in the step that gave r
ReceivedInStep(id, v, r) ==
  /\ r.world.rl[id].rewardHistory = Append(rl[id].rewardHistory, v)
  /\ r.world.rl[id].totalReward = Plus(rl[id].totalReward, v)
  /\ EventCount(r.world.rl[id], "reward_received")
       = EventCount(rl[id], "reward_received") + 1

\* what the other registered agents receive in a step of an environment
\* that distributes rewards: the reward value, times 0.3 in competitive mode
DistributedInStep(agentId, r) ==
  \A id \in RLAgentIds \ {agentId} :
    Registered(env, id) =>
      ReceivedInStep(id, IF env.competitiveMode
                           THEN Times(r.result.reward.value, <<3, 10>>)
                           ELSE r.result.reward.value, r)

\* C20: on each successful step in an environment with more than one agent,
\* in cooperative mode every agent other than the acting one receives through
\* receiveReward the same reward value as the acting agent, in competitive
\* mode every other agent receives that value multiplied by 0.3, and the
\* acting agent receives its reward exactly once and is not included in the
\* distribution.
SharedRewardDistribution ==
  LET P(agentId, action, currentState, r) ==
        (~r.threw /\ Len(env.agents) > 1) =>
          /\ ReceivedInStep(agentId, r.result.reward.value, r)
          /\ DistributedInStep(agentId, r)
  IN EveryStep(P)

\* C20 amended: the same in an environment constructed with the option
\* sharedRewards; without that option no other agent receives anything,
\* whatever the mode, and the acting agent receives its reward once.
SharedRewardDistributionWhenEnabled ==
  LET P(agentId, action, currentState, r) ==
        (~r.threw /\ Len(env.agents) > 1) =>
          /\ ReceivedInStep(agentId, r.result.reward.value, r)
          /\ IF env.sharedRewards
               THEN DistributedInStep(agentId, r)
               ELSE \A id \in RLAgentIds \ {agentId} : r.world.rl[id] = rl[id]
  IN EveryStep(P)

\* C20 witness: in a competitive environment that shares rewards, the first
\* agent has made a step with a reward that is not zero, and the second
\* agent holds three tenths of it.
ReducedRewardShared ==
  /\ env.sharedRewards /\ env.competitiveMode
  /\ Len(env.agents) = 2
  /\ env.stepCount = 1
  /\ Len(rl["agent-1"].rewardHistory) = 1
  /\ rl["agent-1"].rewardHistory[1] # Zero
  /\ rl["agent-2"].rewardHistory
       = <<Times(rl["agent-1"].rewardHistory[1], <<3, 10>>)>>

(* ------------------- claims of the third group ------------------------- *)
\* C30: episode and agent lifecycles stay in step: whenever the
\* environment's episode is active every agent registered in the environment
\* has status learning, and whenever it is inactive every registered agent
\* has status idle, for any interleaving of addAgent, startEpisode, step,
\* endEpisode and reset.
LifecyclesInStep ==
  \A id \in RLAgentIds :
    Registered(env, id) =>
      rl[id].status = IF env.episodeActive THEN "learning" ELSE "idle"

\* C23: after a learning agent's reset(), whatever happened before, the
\* QTable has no entries, the experience buffer, reward history, event log
\* and learning-progress history are empty, the episode counter, the
\* episodes-completed metric, total reward and average reward are zero,
\* explorationRate equals the configured initial exploration rate, and
\* status is idle.
ResetClearsEverything ==
  LET g == resetAgent(rl[DirectAgent])
  IN /\ QPairs(g.qTable) = {}
     /\ g.experienceBuffer = <<>>
     /\ g.rewardHistory = <<>>
     /\ g.learningEvents = <<>>
     /\ g.performance.learningProgress = <<>>
     /\ g.episodeCount = 0
     /\ g.performance.episodesCompleted = 0
     /\ g.totalReward = Zero
     /\ g.averageReward = Zero
     /\ g.performance.explorationRate = g.config.explorationRate
     /\ g.status = "idle"

\* C27: receiveReward(reward, state, action) changes only reward bookkeeping
\* (total reward, reward history, average reward, event log): the QTable,
\* the experience buffer, the exploration rate and the agent's status are
\* unchanged by it.
ReceiveRewardFrame ==
  \A value \in DirectRewards :
    LET g == rl[DirectAgent]
        n == receiveReward(g, value)
    IN /\ n.qTable = g.qTable
       /\ n.experienceBuffer = g.experienceBuffer
       /\ n.performance.explorationRate = g.performance.explorationRate
       /\ n.status = g.status
       /\ n = [g EXCEPT !.totalReward = n.totalReward,
                        !.rewardHistory = n.rewardHistory,
                        !.averageReward = n.averageReward,
                        !.learningEvents = n.learningEvents]

\* C27 witness: an agent that has learnt, so that its QTable and its buffer
\* hold something, and that has received a reward after that.
RewardReceivedAfterLearning ==
  /\ QPairs(rl[DirectAgent].qTable) # {}
  /\ rl[DirectAgent].experienceBuffer # <<>>
  /\ Len(rl[DirectAgent].learningEvents) = 2
  /\ rl[DirectAgent].learningEvents[2].type = "reward_received"
  /\ Len(rl[DirectAgent].rewardHistory) = 1

\* the largest Q(s, a) over the actions of the configured action space, a
\* pair without a stored value reading as the table default
MaxOverActionSpace(g, stateHash) ==
  MaxOfSet({QValue(g.qTable, stateHash, g.actions[i].id) : i \in DOMAIN g.actions})

\* C25: in the Bellman update, the max over next-state actions ranges over
\* the whole configured action space, with every (s', a') pair that has no
\* stored value reading as the table's default value; e.g. when the only
\* stored value for s' is below the default and another action of the
\* action space is unseen for s', the max equals the default.
MaxRangesOverActionSpace ==
  \A e \in DirectExperiences :
    LET g == rl[DirectAgent]
        h == hashState(e.state)
        a == e.action.id
    IN (g.config.algorithm = "q-learning" /\ ~e.done) =>
         learn(g, e).qTable.states[h][a]
           = Bellman(g.config, QValue(g.qTable, h, a), e.reward.value,
                     MaxOverActionSpace(g, hashState(e.nextState)))

\* C24: the Q-table key used for a state is a function of its feature
\* mapping only: any two states with identical feature sets (regardless of
\* key insertion order, timestamp, context, or a hash value already stored
\* in the state object) are looked up and updated under the same Q-table
\* key by learn and selectAction.
KeyFromFeaturesOnly ==
  \A e \in DirectExperiences, other \in CallerStates :
    other.features = e.state.features =>
      /\ hashState(other) = hashState(e.state)
      /\ rl[DirectAgent].config.algorithm = "q-learning" =>
           QPairs(learn(rl[DirectAgent], [e EXCEPT !.state = other]).qTable)
             = QPairs(learn(rl[DirectAgent], e).qTable)

\* C26: after any sequence of learn, receiveReward, startEpisode and
\* endEpisode the experience buffer holds at most memorySize entries (10000
\* when memorySize is not set), the event log at most 1000 and the learning
\* progress at most 100; a call that pushes onto a full buffer drops the
\* buffer's oldest entry and keeps the others in order.
BufferCap(g) ==
  IF g.config.memorySize # 0 THEN g.config.memorySize ELSE DefaultMemorySize

PushedOnto(old, new, cap) ==
  \/ new = old
  \/ /\ Len(new) = Len(old) + 1
     /\ Len(new) <= cap
     /\ SubSeq(new, 1, Len(old)) = old
  \/ /\ Len(old) = cap
     /\ Len(new) = cap
     /\ SubSeq(new, 1, cap - 1) = Tail(old)

BuffersWithinCaps ==
  LET g == rl[DirectAgent]
  IN /\ Len(g.experienceBuffer) <= BufferCap(g)
     /\ Len(g.learningEvents) <= MaxLearningEvents
     /\ Len(g.performance.learningProgress) <= MaxLearningProgress

OldestDropped ==
  LET g == rl[DirectAgent]
      h == rl'[DirectAgent]
  IN /\ PushedOnto(g.experienceBuffer, h.experienceBuffer, BufferCap(g))
     /\ PushedOnto(g.learningEvents, h.learningEvents, MaxLearningEvents)
     /\ PushedOnto(g.performance.learningProgress,
                   h.performance.learningProgress, MaxLearningProgress)

BoundedBuffers == []BuffersWithinCaps /\ [][OldestDropped]_vars

\* every buffer is full and has dropped an entry
AllBuffersOverflowed ==
  LET g == rl[DirectAgent]
      lp == g.performance.learningProgress
  IN /\ calls = MaxAgentCalls
     /\ g.config.memorySize # 0
     /\ Len(g.experienceBuffer) = g.config.memorySize
     /\ g.experienceBuffer[1] # g.experienceBuffer[Len(g.experienceBuffer)]
     /\ Len(g.learningEvents) = MaxLearningEvents
     /\ g.learningEvents[2].type # "state_transition"
     /\ Len(lp) = MaxLearningProgress
     /\ lp[Len(lp)].episode > 0

\* C28: importing what an agent exports, into the agent itself or into a
\* newly constructed agent of any configuration, gives a Q-table with the
\* same Q-value for every state and action, the same default value, and the
\* same performance, explorationRate included.
SameKnowledge(g, h) ==
  /\ \A stateHash \in (DOMAIN g.qTable.states) \cup (DOMAIN h.qTable.states)
                        \cup {hashState(state) : state \in CallerStates} :
       \A i \in DOMAIN ActionSpace :
          /\ getQValue(h.qTable, stateHash, ActionSpace[i].id) =
               getQValue(g.qTable, stateHash, ActionSpace[i].id)
          /\ QValue(h.qTable, stateHash, ActionSpace[i].id) =
               QValue(g.qTable, stateHash, ActionSpace[i].id)
  /\ h.qTable.defaultValue = g.qTable.defaultValue
  /\ h.performance = g.performance
  /\ h.performance.explorationRate = g.performance.explorationRate

KnowledgeRoundTrip ==
  \A target \in {rl[DirectAgent]} \cup
                 {NewAgent(config, ActionSpace) : config \in LearningConfigs} :
    SameKnowledge(rl[DirectAgent],
                  importKnowledge(target, exportKnowledge(rl[DirectAgent])))

\* the other agent has imported a Q-table with stored values and an
\* exploration rate that is not the one it was constructed with
KnowledgeHandedOver ==
  \E other \in RLAgentIds \ {DirectAgent} :
    /\ rl[other].version > 1
    /\ QPairs(rl[other].qTable) # {}
    /\ rl[other].qTable = rl[DirectAgent].qTable
    /\ rl[other].performance = rl[DirectAgent].performance
    /\ rl[other].performance.explorationRate # rl[other].config.explorationRate
    /\ rl[other].performance.learningProgress # <<>>

\* C22: submitting a task whose type is not a key of taskCapabilityMap is
\* rejected: the call leaves the task queue, the tasks and the workers as
\* they were.
UnknownTaskType == "deploy_model"

UnknownTypeRejected ==
  \A p \in Priority :
    LET st == submitTask(State, UnknownTaskType, p)
    IN /\ st.taskQueue = taskQueue
       /\ st.tasks = tasks
       /\ st.agents = agents

\* notifyTaskCompletion is called in one place, the end of executeTask's
\* finally block, and executeTask runs once for a task; output is assigned
\* just before, in the try or the catch block, and nowhere else. The tasks a
\* 'taskCompleted' event has been dispatched for are therefore those with an
\* output, one event each, carrying the task as executeTask left it.
Notified == {t \in DOMAIN tasks : tasks[t].output # "none"}

\* C21: a task has had its one completion event exactly when its status is
\* completed, failed or cancelled.
OneEventPerTerminalTask ==
  \A t \in DOMAIN tasks : (tasks[t].status \in TerminalStatus) <=> (t \in Notified)

\* C29: after any executions of a worker, in any order, its successRate is
\* 100 times the number of those that succeeded over the number of all of
\* them, and 100 when there were none.
SuccessRateIsShare ==
  LET attempted == Len(call.outcomes)
      succeeded == Cardinality({i \in DOMAIN call.outcomes : call.outcomes[i]})
  IN call.performance.successRate =
       IF attempted = 0 THEN <<100, 1>>
       ELSE Over(<<100 * succeeded, 1>>, <<attempted, 1>>)

(* ------------------- claims of the fourth group ------------------------ *)
\* C39: every task of a known type has a worker in the pool that declares
\* one of the capabilities its type requires.
EveryTaskHasCapableWorker ==
  \A t \in DOMAIN tasks :
    /\ tasks[t].type \in TaskType
    /\ \E a \in DOMAIN agents :
         canAgentHandleTask(AgentCapabilities[a], tasks[t].type)

\* C35: every task in the pending queue has status pending.
QueueHoldsPendingOnly ==
  \A i \in DOMAIN taskQueue : tasks[taskQueue[i]].status = "pending"

\* C36: the active set holds exactly the tasks with status assigned or
\* running, each of them names a busy worker whose current task it is, no
\* task is in two of the queue, the active set and the completed list, and
\* the completed list holds completed tasks only.
CollectionsMatchStatus ==
  LET queued == {taskQueue[i] : i \in DOMAIN taskQueue}
      completed == {completedTasks[i] : i \in DOMAIN completedTasks}
  IN /\ activeTasks = {t \in DOMAIN tasks : tasks[t].status \in InFlightStatus}
     /\ \A t \in activeTasks :
          /\ tasks[t].assignedAgent \in DOMAIN agents
          /\ agents[tasks[t].assignedAgent].status = "busy"
          /\ agents[tasks[t].assignedAgent].currentTask = t
     /\ queued \cap activeTasks = {}
     /\ queued \cap completed = {}
     /\ activeTasks \cap completed = {}
     /\ \A t \in completed : tasks[t].status = "completed"

\* C34: when a task was cancelled while running and its worker has since
\* been given another task, the end of the cancelled task's execution, by
\* completion or by failure, leaves that worker's status, current task and
\* load as they are.
LateEndLeavesWorker ==
  \A t \in executing :
    LET a == tasks[t].assignedAgent
    IN (/\ tasks[t].status = "cancelled"
        /\ agents[a].status = "busy"
        /\ agents[a].currentTask # t)
       => /\ executeTaskResolve(State, t).agents[a] = agents[a]
          /\ executeTaskReject(State, t).agents[a] = agents[a]

\* C37: with ticks that keep occurring, executions that end and at most
\* MaxLiveTasks submissions, every submitted task of a type some worker is
\* capable of is eventually assigned, unless it is cancelled first, and
\* eventually completed, failed or cancelled; a task of a type no worker is
\* capable of is never assigned and stays pending until it is cancelled.
HasCapableWorker(t) ==
  \E a \in AgentIds : canAgentHandleTask(AgentCapabilities[a], tasks[t].type)

Submitted(t) == t \in DOMAIN tasks

EveryCapableTaskServed ==
  /\ \A t \in 1..MaxTasks :
       (Submitted(t) /\ HasCapableWorker(t))
         ~> (Submitted(t) /\ (\/ tasks[t].assignedAgent # NoAgent
                              \/ tasks[t].status = "cancelled"))
  /\ \A t \in 1..MaxTasks :
       (Submitted(t) /\ HasCapableWorker(t))
         ~> (Submitted(t) /\ tasks[t].status \in TerminalStatus)
  /\ [](\A t \in DOMAIN tasks :
         ~HasCapableWorker(t) =>
            /\ tasks[t].status \in {"pending", "cancelled"}
            /\ tasks[t].assignedAgent = NoAgent)

\* two tasks that had to share a worker have both completed
BothServedInTurn ==
  \E t, u \in DOMAIN tasks :
    /\ t # u
    /\ tasks[t].assignedAgent = tasks[u].assignedAgent
    /\ tasks[t].assignedAgent # NoAgent
    /\ tasks[t].status = "completed"
    /\ tasks[u].status = "completed"

\* C32: a step leaves the state it is given as it was, its recent-action
\* history included, and with it the states of the experiences delivered
\* before: no array of recent actions that existed before the step differs
\* after it.
CurrentStateUntouched(agentId, action, currentState, r) ==
  ~r.threw =>
    /\ previousActionsOf(r.world.heap, currentState) =
         previousActionsOf(heap, currentState)
    /\ \A ref \in DOMAIN heap : r.world.heap[ref] = heap[ref]

StepKeepsCurrentState == EveryStep(CurrentStateUntouched)

\* C31: the recent-action history of the state a step returns has at most
\* 10 entries, ends with the id of the action taken, and is the latest part
\* of the given state's history followed by that id.
RecentActionsKept(agentId, action, currentState, r) ==
  ~r.threw =>
    \A recent \in {previousActionsOf(r.world.heap, r.result.nextState)} :
      /\ Len(recent) <= 10
      /\ recent[Len(recent)] = action.id
      /\ recent = LastK(previousActionsOf(heap, currentState) \o <<action.id>>, 10)

ConditionHolds(stepCount, condition, state, agent) ==
  IF condition.type = "max_steps"
    THEN ~Less(<<stepCount, 1>>, condition.value)
  ELSE IF condition.type = "goal_reached"
    THEN ~Less(OrDefault(state.features, "overallPerformance", Zero),
               condition.value)
  ELSE IF condition.type = "performance_threshold"
    THEN ~Less(agent.averageReward, condition.value)
  ELSE FALSE

DoneAsConfigured(agentId, action, currentState, r) ==
  ~r.threw =>
    \A conditions \in {env.environmentParams.terminationConditions} :
      /\ r.result.done <=>
           \E i \in DOMAIN conditions :
             ConditionHolds(env.stepCount + 1, conditions[i],
                            r.result.nextState, rl[agentId])
      /\ \A i \in DOMAIN conditions :
           (/\ conditions[i].type = "max_steps"
            /\ ~Less(conditions[i].value, One)
            /\ ~Less(<<env.stepCount + 1, 1>>, conditions[i].value))
           => r.result.done

DoneExactlyWhenConditionHolds == EveryStep(DoneAsConfigured)

\* C38: the agent's averageReward is its totalReward divided by the number
\* of rewards it has received through receiveReward, and 0 when it has
\* received none.
AverageOverReceivedRewards ==
  LET g == rl[DirectAgent]
      received == Cardinality({i \in DOMAIN g.learningEvents :
                                 g.learningEvents[i].type = "reward_received"})
  IN g.averageReward =
       IF received = 0 THEN Zero ELSE Over(g.totalReward, <<received, 1>>)

TypeOK ==
  /\ \A id \in TaskIds :
       /\ tasks[id].type \in TaskType
       /\ tasks[id].priority \in Priority
       /\ tasks[id].status \in {"pending"} \cup InFlightStatus \cup TerminalStatus
       /\ tasks[id].assignedAgent \in AgentIds \cup {NoAgent}
  /\ \A a \in AgentIds : agents[a].currentLoad \in 0..MaxTasks

====
